---------------------------- MODULE Spec2Model ----------------------------
(***************************************************************************)
(* Firegen: declarative firewalld configuration -> firewall-cmd scripts    *)
(* (generator.mjs), validation and template expansion (parser.mjs,         *)
(* template-engine.mjs) and the reverse direction (reverse-parser.mjs).    *)
(*                                                                         *)
(* JavaScript values are modelled as tagged records, strings as TLA+       *)
(* strings handled character by character (Len, SubSeq, \o).               *)
(***************************************************************************)
EXTENDS Integers, Sequences, FiniteSets, TLC

VARIABLES
    pc,          \* position of the pipeline that is being exercised
    config,      \* the expanded configuration handed to the generator
    runtime,     \* options.runtime of generateApply / generateRemove
    applyOut,    \* result of generateApply(config, {runtime})
    removeOut,   \* result of generateRemove(config, {runtime})
    fw,          \* firewall settings established by the executed commands
    fragment,    \* result of parseCommands(text of the apply script)
    rule,        \* a rich_rules entry (input of buildRichRule)
    ruleStr,     \* buildRichRule(rule)
    ruleBack,    \* parseRichRule(ruleStr)
    ruleAgain,   \* buildRichRule(ruleBack)
    doc,         \* the deserialized document handed to the validator
    parsed,      \* result of parseConfig
    tabs,        \* what handleYamlChange puts into the apply / remove tabs
    again,       \* processTemplate applied to the config of parsed
    script,      \* the text handed to parseCommands by the import
    existing,    \* first argument of mergeConfigs, as it is handed over
    incoming,    \* second argument of mergeConfigs, as it is handed over
    merged       \* result of mergeConfigs, and both arguments after the call

vars == <<pc, config, runtime, applyOut, removeOut, fw, fragment,
          rule, ruleStr, ruleBack, ruleAgain, doc, parsed, tabs,
          again, script, existing, incoming, merged>>

mergeVars == <<script, existing, incoming, merged>>

-----------------------------------------------------------------------------
(* JavaScript values *)

Undef == [t |-> "undef"]
Null == [t |-> "null"]
S(s) == [t |-> "str", v |-> s]
N(n) == [t |-> "num", v |-> n]
B(b) == [t |-> "bool", v |-> b]
NaN == [t |-> "nan"]
L(xs) == [t |-> "list", v |-> xs]
\* a mapping: its <<key, value>> pairs in insertion order
M(ps) == [t |-> "map", v |-> ps]

IsUndef(x) == x.t = "undef"
IsNull(x) == x.t = "null"
IsStr(x) == x.t = "str"
IsList(x) == x.t = "list"
IsMap(x) == x.t = "map"
\* x === null || x === undefined: a property read on x raises TypeError
Nullish(x) == x.t \in {"undef", "null"}
\* typeof x === "object"
TypeofObject(x) == x.t \in {"null", "list", "map"}

Keys(m) == [i \in 1..Len(m.v) |-> m.v[i][1]]
KeySet(m) == {m.v[i][1] : i \in 1..Len(m.v)}
Has(m, k) == IsMap(m) /\ k \in KeySet(m)
\* x.k for a value that is not null or undefined
Get(x, k) ==
    IF Has(x, k)
    THEN x.v[CHOOSE i \in 1..Len(x.v) : x.v[i][1] = k][2]
    ELSE Undef

Truthy(x) ==
    CASE x.t = "undef" -> FALSE
      [] x.t = "null" -> FALSE
      [] x.t = "bool" -> x.v
      [] x.t = "num" -> x.v # 0
      [] x.t = "str" -> x.v # ""
      [] x.t = "nan" -> FALSE
      [] OTHER -> TRUE

-----------------------------------------------------------------------------
(* Strings *)

Char(s, i) == SubSeq(s, i, i)
StartsWith(s, p) == Len(s) >= Len(p) /\ SubSeq(s, 1, Len(p)) = p
EndsWith(s, p) == Len(s) >= Len(p) /\ SubSeq(s, Len(s) - Len(p) + 1, Len(s)) = p
From(s, i) == SubSeq(s, i, Len(s))

\* the least element of a non-empty set of indices
Least(hits) == CHOOSE i \in hits : \A j \in hits : i <= j

\* s.indexOf(p), counted from 1; 0 when s does not hold p
IndexOf(s, p) ==
    LET hits == {i \in 1..(Len(s) - Len(p) + 1) : SubSeq(s, i, i + Len(p) - 1) = p}
    IN IF hits = {} THEN 0 ELSE Least(hits)

Contains(s, p) == \E i \in 1..(Len(s) - Len(p) + 1) : SubSeq(s, i, i + Len(p) - 1) = p

\* s.replace(p, r) with a string pattern: the first occurrence only
ReplaceFirst(s, p, r) ==
    LET i == IndexOf(s, p)
    IN IF i = 0 THEN s ELSE SubSeq(s, 1, i - 1) \o r \o From(s, i + Len(p))

RECURSIVE Join(_, _)
Join(parts, sep) ==
    IF Len(parts) = 0 THEN ""
    ELSE IF Len(parts) = 1 THEN parts[1]
    ELSE Join(SubSeq(parts, 1, Len(parts) \div 2), sep) \o sep
         \o Join(SubSeq(parts, (Len(parts) \div 2) + 1, Len(parts)), sep)

Digits == "0123456789"
UpperCase == "ABCDEFGHIJKLMNOPQRSTUVWXYZ"
LowerCase == "abcdefghijklmnopqrstuvwxyz"

RECURSIVE NatToStr(_)
NatToStr(n) ==
    IF n < 10 THEN Char(Digits, n + 1)
    ELSE NatToStr(n \div 10) \o Char(Digits, (n % 10) + 1)

NumToStr(n) == IF n < 0 THEN "-" \o NatToStr(0 - n) ELSE NatToStr(n)

RECURSIVE ToLowerCase(_)
ToLowerCase(s) ==
    IF s = "" THEN ""
    ELSE LET c == Char(s, 1)
             i == IndexOf(UpperCase, c)
         IN (IF i = 0 THEN c ELSE Char(LowerCase, i)) \o ToLowerCase(From(s, 2))

\* String(x) and `${x}`
RECURSIVE ToStr(_)
ToStr(x) ==
    CASE x.t = "str" -> x.v
      [] x.t = "num" -> NumToStr(x.v)
      [] x.t = "bool" -> IF x.v THEN "true" ELSE "false"
      [] x.t = "undef" -> "undefined"
      [] x.t = "null" -> "null"
      [] x.t = "nan" -> "NaN"
      [] x.t = "map" -> "[object Object]"
      [] x.t = "list" ->
           Join([i \in 1..Len(x.v) |->
                    IF Nullish(x.v[i]) THEN "" ELSE ToStr(x.v[i])], ",")


-----------------------------------------------------------------------------
(* generator.mjs *)

CMD == "firewall-cmd"

Part(cond, str) == IF cond THEN <<str>> ELSE <<>>

buildRichRule_forward_port(fp) ==
    "forward-port port=\"" \o ToStr(Get(fp, "port")) \o "\" protocol=\""
        \o ToStr(Get(fp, "protocol")) \o "\""
    \o (IF Truthy(Get(fp, "to_port"))
        THEN " to-port=\"" \o ToStr(Get(fp, "to_port")) \o "\"" ELSE "")
    \o (IF Truthy(Get(fp, "to_addr"))
        THEN " to-addr=\"" \o ToStr(Get(fp, "to_addr")) \o "\"" ELSE "")

buildRichRule_log(log) ==
    "log"
    \o (IF Truthy(Get(log, "prefix"))
        THEN " prefix=\"" \o ToStr(Get(log, "prefix")) \o "\"" ELSE "")
    \o (IF Truthy(Get(log, "level"))
        THEN " level=\"" \o ToStr(Get(log, "level")) \o "\"" ELSE "")
    \o (IF Truthy(Get(log, "limit"))
        THEN " limit value=\"" \o ToStr(Get(log, "limit")) \o "\"" ELSE "")

buildRichRule_action(r) ==
    LET action == ToLowerCase(ToStr(Get(r, "action")))
    IN IF action = "reject" /\ Truthy(Get(r, "reject_type"))
       THEN "reject type=\"" \o ToStr(Get(r, "reject_type")) \o "\""
       ELSE IF action = "mark" /\ Truthy(Get(r, "mark_set"))
       THEN "mark set=\"" \o ToStr(Get(r, "mark_set")) \o "\""
       ELSE action

\* the parts of the rendering, in the order in which the code pushes them
buildRichRuleParts(r) ==
    <<"rule">>
    \o Part(Truthy(Get(r, "family")), "family=\"" \o ToStr(Get(r, "family")) \o "\"")
    \o Part(Truthy(Get(r, "source")),
            "source address=\"" \o ToStr(Get(r, "source")) \o "\""
            \o (IF Truthy(Get(r, "source_invert")) THEN " invert=\"true\"" ELSE ""))
    \o Part(Truthy(Get(r, "destination")),
            "destination address=\"" \o ToStr(Get(r, "destination")) \o "\""
            \o (IF Truthy(Get(r, "destination_invert")) THEN " invert=\"true\"" ELSE ""))
    \o Part(Truthy(Get(r, "service")), "service name=\"" \o ToStr(Get(r, "service")) \o "\"")
    \o Part(Truthy(Get(r, "port")) /\ Truthy(Get(r, "protocol")),
            "port port=\"" \o ToStr(Get(r, "port")) \o "\" protocol=\""
            \o ToStr(Get(r, "protocol")) \o "\"")
    \o Part(Truthy(Get(r, "protocol")) /\ ~Truthy(Get(r, "port")),
            "protocol value=\"" \o ToStr(Get(r, "protocol")) \o "\"")
    \o Part(Truthy(Get(r, "icmp_block")),
            "icmp-block name=\"" \o ToStr(Get(r, "icmp_block")) \o "\"")
    \o Part(Truthy(Get(r, "icmp_type")),
            "icmp-type name=\"" \o ToStr(Get(r, "icmp_type")) \o "\"")
    \o Part(Truthy(Get(r, "masquerade")), "masquerade")
    \o (IF Truthy(Get(r, "forward_port"))
        THEN <<buildRichRule_forward_port(Get(r, "forward_port"))>> ELSE <<>>)
    \o (IF Truthy(Get(r, "source_port"))
        THEN <<"source-port port=\"" \o ToStr(Get(Get(r, "source_port"), "port"))
               \o "\" protocol=\"" \o ToStr(Get(Get(r, "source_port"), "protocol")) \o "\"">>
        ELSE <<>>)
    \o (IF Truthy(Get(r, "log")) THEN <<buildRichRule_log(Get(r, "log"))>> ELSE <<>>)
    \o Part(Truthy(Get(r, "audit")), "audit")
    \o (IF Truthy(Get(r, "action")) THEN <<buildRichRule_action(r)>> ELSE <<>>)

\* buildRichRule(rule), for a rule that is not null or undefined
buildRichRule(r) == Join(buildRichRuleParts(r), " ")

\* an emitCommand without the runtime variant
emitCommandOnce(cmds, rt, permanentOnly) == cmds

\* emitCommand for each command of cmds in turn
emitCommand(cmds, rt, permanentOnly) ==
    IF rt /\ ~permanentOnly
    THEN [j \in 1..(2 * Len(cmds)) |->
             IF j % 2 = 1 THEN cmds[(j + 1) \div 2]
             ELSE ReplaceFirst(cmds[j \div 2], " --permanent", "")]
    ELSE cmds

\* typeof x === "object" ? x.value : x   (raises on null)
ValueOf(x) == IF TypeofObject(x) THEN Get(x, "value") ELSE x

\* the `port/proto` rendering shared by ports and source_ports (raises on null)
PortText(p) ==
    IF TypeofObject(p) /\ ~IsUndef(Get(p, "port"))
    THEN ToStr(Get(p, "port")) \o "/"
         \o (IF Truthy(Get(p, "protocol")) THEN ToStr(Get(p, "protocol")) ELSE "tcp")
    ELSE ToStr(p)

ForwardPortText(fp) ==
    "port=" \o ToStr(Get(fp, "port")) \o ":proto="
    \o (IF Truthy(Get(fp, "protocol")) THEN ToStr(Get(fp, "protocol")) ELSE "tcp")
    \o (IF Truthy(Get(fp, "to_port")) THEN ":toport=" \o ToStr(Get(fp, "to_port")) ELSE "")
    \o (IF Truthy(Get(fp, "to_addr")) THEN ":toaddr=" \o ToStr(Get(fp, "to_addr")) ELSE "")

\* the elements of zone[field] when it is an array, else none
Elems(zone, field) == IF IsList(Get(zone, field)) THEN Get(zone, field).v ELSE <<>>

ZonePrefix(zoneName) == CMD \o " --permanent --zone=" \o zoneName \o " "

\* the commands of one zone field, in emission order
ZoneFieldCommands(zoneName, zone, field, op, rt) ==
    LET pre == ZonePrefix(zoneName)
        flag == "--" \o op
        xs == Elems(zone, field)
        each(text(_)) == emitCommand([i \in 1..Len(xs) |-> text(xs[i])], rt, FALSE)
        iface(x) == pre \o flag \o "-interface=" \o ToStr(ValueOf(x))
        src(x) == pre \o flag \o "-source=" \o ToStr(ValueOf(x))
        svc(x) == pre \o flag \o "-service=" \o ToStr(ValueOf(x))
        port(x) == pre \o flag \o "-port=" \o PortText(x)
        proto(x) == pre \o flag \o "-protocol=" \o ToStr(ValueOf(x))
        sport(x) == pre \o flag \o "-source-port=" \o PortText(x)
        rich(x) == pre \o flag \o "-rich-rule='" \o buildRichRule(x) \o "'"
        fport(x) == pre \o flag \o "-forward-port=" \o ForwardPortText(x)
        icmp(x) == pre \o flag \o "-icmp-block=" \o ToStr(ValueOf(x))
    IN CASE field = "target" ->
              IF op = "add" /\ ~IsUndef(Get(zone, "target"))
              THEN emitCommand(<<pre \o "--set-target=" \o ToStr(Get(zone, "target"))>>,
                               rt, TRUE)
              ELSE <<>>
         [] field = "interfaces" -> each(iface)
         [] field = "sources" -> each(src)
         [] field = "services" -> each(svc)
         [] field = "ports" -> each(port)
         [] field = "protocols" -> each(proto)
         [] field = "source_ports" -> each(sport)
         [] field = "rich_rules" -> each(rich)
         [] field = "forward" ->
              IF Get(zone, "forward") = B(TRUE)
              THEN emitCommand(<<pre \o flag \o "-forward">>, rt, FALSE) ELSE <<>>
         [] field = "masquerade" ->
              IF Get(zone, "masquerade") = B(TRUE)
              THEN emitCommand(<<pre \o flag \o "-masquerade">>, rt, FALSE) ELSE <<>>
         [] field = "forward_ports" -> each(fport)
         [] field = "icmp_blocks" -> each(icmp)
         [] field = "icmp_block_inversion" ->
              IF op = "add" /\ Get(zone, "icmp_block_inversion") = B(TRUE)
              THEN emitCommand(<<pre \o "--add-icmp-block-inversion">>, rt, FALSE)
              ELSE IF op = "remove" /\ Get(zone, "icmp_block_inversion") = B(TRUE)
              THEN emitCommand(<<pre \o "--remove-icmp-block-inversion">>, rt, FALSE)
              ELSE <<>>

\* the walk with the forward flag emitted ahead of the rich rules
ZoneFieldOrderSwapped ==
    <<"target", "interfaces", "sources", "services", "ports", "protocols",
      "source_ports", "forward", "rich_rules", "masquerade", "forward_ports",
      "icmp_blocks", "icmp_block_inversion">>

\* the order in which generateZoneCommandsDual walks the fields of a zone
ZoneFieldOrder ==
    <<"target", "interfaces", "sources", "services", "ports", "protocols",
      "source_ports", "rich_rules", "forward", "masquerade", "forward_ports",
      "icmp_blocks", "icmp_block_inversion">>

RECURSIVE Concat(_)
Concat(seqs) ==
    IF Len(seqs) = 0 THEN <<>>
    ELSE IF Len(seqs) = 1 THEN seqs[1] \o <<>>
    ELSE Concat(SubSeq(seqs, 1, Len(seqs) \div 2))
         \o Concat(SubSeq(seqs, (Len(seqs) \div 2) + 1, Len(seqs)))

generateZoneCommandsDual(zoneName, zone, op, rt) ==
    Concat([i \in 1..Len(ZoneFieldOrder) |->
               ZoneFieldCommands(zoneName, zone, ZoneFieldOrder[i], op, rt)])

\* an element on which the walk of its field reads a property of null
ZoneElemThrows(field, x) ==
    CASE field \in {"interfaces", "sources", "services", "ports", "protocols",
                    "source_ports", "icmp_blocks"} -> IsNull(x)
      [] field \in {"rich_rules", "forward_ports"} -> Nullish(x)
      [] OTHER -> FALSE

generateZoneCommandsDualThrows(zone) ==
    \E i \in 1..Len(ZoneFieldOrder) :
        \E j \in 1..Len(Elems(zone, ZoneFieldOrder[i])) :
            ZoneElemThrows(ZoneFieldOrder[i], Elems(zone, ZoneFieldOrder[i])[j])

\* `${c.ipv} ${c.table} ${c.chain}`: the key under which a chain is remembered
ChainKey(c) ==
    ToStr(Get(c, "ipv")) \o " " \o ToStr(Get(c, "table")) \o " " \o ToStr(Get(c, "chain"))

\* the elements whose key was not seen at an earlier index
FirstSeen(xs, keys) ==
    LET keep == {i \in 1..Len(xs) : \A j \in 1..(i - 1) : keys[j] # keys[i]}
        RECURSIVE pick(_)
        pick(i) == IF i > Len(xs) THEN <<>>
                   ELSE (IF i \in keep THEN <<xs[i]>> ELSE <<>>) \o pick(i + 1)
    IN pick(1)

\* the chains of a direct block, one per key
DistinctChains(direct) ==
    LET chains == Elems(direct, "chains")
    IN FirstSeen(chains, [i \in 1..Len(chains) |-> ChainKey(chains[i])])

DirectPrefix(op) == CMD \o " --permanent --direct --" \o op

generateDirectCommandsDual(direct, op, rt) ==
    LET chains == DistinctChains(direct)
        rules == Elems(direct, "rules")
        pts == Elems(direct, "passthroughs")
        ruleText(r) ==
            DirectPrefix(op) \o "-rule " \o ToStr(Get(r, "ipv")) \o " "
            \o ToStr(Get(r, "table")) \o " " \o ToStr(Get(r, "chain")) \o " "
            \o ToStr(Get(r, "priority")) \o " " \o ToStr(Get(r, "args"))
    IN emitCommand([i \in 1..Len(chains) |->
                       DirectPrefix(op) \o "-chain " \o ChainKey(chains[i])], rt, FALSE)
       \o emitCommand([i \in 1..Len(rules) |-> ruleText(rules[i])], rt, FALSE)
       \o emitCommand([i \in 1..Len(pts) |->
                          DirectPrefix(op) \o "-passthrough " \o ToStr(Get(pts[i], "ipv"))
                          \o " " \o ToStr(Get(pts[i], "args"))], rt, FALSE)

generateDirectCommandsDualThrows(direct) ==
    \E f \in {"chains", "rules", "passthroughs"} :
        \E i \in 1..Len(Elems(direct, f)) : Nullish(Elems(direct, f)[i])

\* Object.entries(config.zones), config.zones being a mapping
ZoneEntries(cfg) == IF IsMap(Get(cfg, "zones")) THEN Get(cfg, "zones").v ELSE <<>>

ZoneSections(cfg, op, rt) ==
    Concat([i \in 1..Len(ZoneEntries(cfg)) |->
               <<"# Zone: " \o ZoneEntries(cfg)[i][1]>>
               \o generateZoneCommandsDual(ZoneEntries(cfg)[i][1], ZoneEntries(cfg)[i][2],
                                           op, rt)
               \o <<"">>])

DirectSection(cfg, banner, op, rt) ==
    IF Truthy(Get(cfg, "direct"))
    THEN <<banner>> \o generateDirectCommandsDual(Get(cfg, "direct"), op, rt) \o <<"">>
    ELSE <<>>

ReloadSection(rt) == IF ~rt THEN <<"# Reload firewalld", CMD \o " --reload">> ELSE <<>>

\* a walk of the zones or of the direct block reads a property of null
GenerateThrows(cfg) ==
    \/ \E i \in 1..Len(ZoneEntries(cfg)) :
           generateZoneCommandsDualThrows(ZoneEntries(cfg)[i][2])
    \/ Truthy(Get(cfg, "direct")) /\ generateDirectCommandsDualThrows(Get(cfg, "direct"))

Returned(x) == [threw |-> FALSE, value |-> x]
Thrown == [threw |-> TRUE]

\* generateApply(config, {runtime})
generateApply(cfg, rt) ==
    IF ~Truthy(cfg) THEN Returned(<<>>)
    ELSE IF GenerateThrows(cfg) THEN Thrown
    ELSE Returned(
        <<"#!/bin/bash", "# Generated by Firegen",
          "# Apply script: adds all configured rules", "">>
        \o ZoneSections(cfg, "add", rt)
        \o DirectSection(cfg, "# Direct rules", "add", rt)
        \o ReloadSection(rt))

\* a remove script that keeps the section order of the apply script
generateRemoveZonesFirst(cfg, rt) ==
    IF ~Truthy(cfg) THEN Returned(<<>>)
    ELSE IF GenerateThrows(cfg) THEN Thrown
    ELSE Returned(
        <<"#!/bin/bash", "# Generated by Firegen",
          "# Remove script: removes all configured rules", "">>
        \o ZoneSections(cfg, "remove", rt)
        \o DirectSection(cfg, "# Remove direct rules", "remove", rt)
        \o ReloadSection(rt))

\* generateRemove(config, {runtime})
generateRemove(cfg, rt) ==
    IF ~Truthy(cfg) THEN Returned(<<>>)
    ELSE IF GenerateThrows(cfg) THEN Thrown
    ELSE Returned(
        <<"#!/bin/bash", "# Generated by Firegen",
          "# Remove script: removes all configured rules", "">>
        \o DirectSection(cfg, "# Remove direct rules", "remove", rt)
        \o ZoneSections(cfg, "remove", rt)
        \o ReloadSection(rt))

-----------------------------------------------------------------------------
(* reverse-parser.mjs *)

\* obj[k] = v on a mapping: an existing key keeps its place
Put(m, k, v) ==
    IF Has(m, k)
    THEN M([i \in 1..Len(m.v) |-> IF m.v[i][1] = k THEN <<k, v>> ELSE m.v[i]])
    ELSE M(Append(m.v, <<k, v>>))

\* delete obj[k]
Del(m, k) ==
    LET keep == {i \in 1..Len(m.v) : m.v[i][1] # k}
        RECURSIVE pick(_)
        pick(i) == IF i > Len(m.v) THEN <<>>
                   ELSE (IF i \in keep THEN <<m.v[i]>> ELSE <<>>) \o pick(i + 1)
    IN M(pick(1))

\* the first index >= i at which s holds a character of cs, Len(s) + 1 if none
FindAny(s, cs, i) ==
    LET hits == {j \in i..Len(s) : Char(s, j) \in cs}
    IN IF hits = {} THEN Len(s) + 1 ELSE Least(hits)

Find(s, c, i) == FindAny(s, {c}, i)

\* the first index >= i at which s holds another character than c
Skip(s, c, i) ==
    CHOOSE j \in i..(Len(s) + 1) :
        /\ j > Len(s) \/ Char(s, j) # c
        /\ \A k \in i..(j - 1) : Char(s, k) = c

\* the inner loop of tokenizeLine: a token up to the next blank, its
\* single-quoted stretches taken whole and without their quotes
RECURSIVE ScanToken(_, _)
ScanToken(line, i) ==
    IF i > Len(line) \/ Char(line, i) = " " THEN [tok |-> "", next |-> i]
    ELSE IF Char(line, i) = "'"
    THEN LET close == Find(line, "'", i + 1)
             rest == ScanToken(line, IF close <= Len(line) THEN close + 1 ELSE close)
         IN [tok |-> SubSeq(line, i + 1, close - 1) \o rest.tok, next |-> rest.next]
    ELSE LET stop == FindAny(line, {" ", "'"}, i)
             rest == ScanToken(line, stop)
         IN [tok |-> SubSeq(line, i, stop - 1) \o rest.tok, next |-> rest.next]

RECURSIVE TokenizeFrom(_, _)
TokenizeFrom(line, i) ==
    LET j == Skip(line, " ", i)
    IN IF j > Len(line) THEN <<>>
       ELSE IF Char(line, j) = "'"
       THEN LET close == Find(line, "'", j + 1)
            IN <<SubSeq(line, j + 1, close - 1)>> \o TokenizeFrom(line, close + 1)
       ELSE LET t == ScanToken(line, j)
            IN <<t.tok>> \o TokenizeFrom(line, t.next)

tokenizeLine(line) == TokenizeFrom(line, 1)

\* the flags of parseFlags: --key=value -> string, --key -> true
RECURSIVE parseFlags(_)
parseFlags(tokens) ==
    IF Len(tokens) = 0 THEN M(<<>>)
    ELSE LET token == tokens[Len(tokens)]
             before == parseFlags(SubSeq(tokens, 1, Len(tokens) - 1))
             eqIdx == IndexOf(token, "=")
         IN IF StartsWith(token, "--")
            THEN IF eqIdx # 0
                 THEN Put(before, SubSeq(token, 3, eqIdx - 1), S(From(token, eqIdx + 1)))
                 ELSE Put(before, From(token, 3), B(TRUE))
            ELSE before

\* parsePort; value.indexOf raises when the flag carried no value
parsePortThrows(value) == ~IsStr(value)
parsePort(value) ==
    LET slashIdx == IndexOf(value.v, "/")
    IN IF slashIdx = 0
       THEN M(<<<<"port", value>>, <<"protocol", S("tcp")>>>>)
       ELSE M(<<<<"port", S(SubSeq(value.v, 1, slashIdx - 1))>>,
                <<"protocol", S(From(value.v, slashIdx + 1))>>>>)

\* s.split(sep) for a separator of one character
\* the elements of a set of indices, in increasing order
RECURSIVE AscendingIn(_, _, _)
AscendingIn(hits, lo, hi) ==
    IF hits = {} THEN <<>>
    ELSE IF lo = hi THEN <<lo>>
    ELSE AscendingIn({j \in hits : j <= (lo + hi) \div 2}, lo, (lo + hi) \div 2)
         \o AscendingIn({j \in hits : j > (lo + hi) \div 2}, ((lo + hi) \div 2) + 1, hi)

Ascending(hits) ==
    IF hits = {} THEN <<>>
    ELSE AscendingIn(hits, Least(hits), CHOOSE m \in hits : \A j \in hits : j <= m)

\* s.split(sep), sep being one character
Split(s, sep) ==
    LET cuts == Ascending({j \in 1..Len(s) : Char(s, j) = sep})
        from(m) == IF m = 1 THEN 1 ELSE cuts[m - 1] + 1
        to(m) == IF m > Len(cuts) THEN Len(s) ELSE cuts[m] - 1
    IN [m \in 1..(Len(cuts) + 1) |-> SubSeq(s, from(m), to(m))]

ForwardPortKeys ==
    ("port" :> "port") @@ ("proto" :> "protocol") @@ ("toport" :> "to_port")
    @@ ("toaddr" :> "to_addr")

\* one turn of the loop of parseForwardPort
ForwardPortPart(result, part, eqIdx) ==
    IF eqIdx = 0 \/ SubSeq(part, 1, eqIdx - 1) \notin DOMAIN ForwardPortKeys THEN result
    ELSE Put(result, ForwardPortKeys[SubSeq(part, 1, eqIdx - 1)], S(From(part, eqIdx + 1)))

RECURSIVE ForwardPortParts(_, _)
ForwardPortParts(parts, n) ==
    IF n = 0 THEN M(<<>>)
    ELSE ForwardPortPart(ForwardPortParts(parts, n - 1), parts[n], IndexOf(parts[n], "="))

ForwardPortOf(parts) == ForwardPortParts(parts, Len(parts))

parseForwardPortThrows(value) == ~IsStr(value)
parseForwardPort(value) == ForwardPortOf(Split(value.v, ":"))

\* the tokens of parseRichRule: split on blanks, a "..." stretch kept whole
RECURSIVE RichScan(_, _)
RichScan(str, i) ==
    IF i > Len(str) \/ Char(str, i) = " " THEN [tok |-> "", next |-> i]
    ELSE IF Char(str, i) = "\""
    THEN LET close == Find(str, "\"", i + 1)
             upto == IF close <= Len(str) THEN close ELSE Len(str)
             rest == RichScan(str, upto + 1)
         IN [tok |-> SubSeq(str, i, upto) \o rest.tok, next |-> rest.next]
    ELSE LET stop == FindAny(str, {" ", "\""}, i)
             rest == RichScan(str, stop)
         IN [tok |-> SubSeq(str, i, stop - 1) \o rest.tok, next |-> rest.next]

RECURSIVE RichTokensFrom(_, _)
RichTokensFrom(str, i) ==
    LET j == Skip(str, " ", i)
    IN IF j > Len(str) THEN <<>>
       ELSE LET t == RichScan(str, j) IN <<t.tok>> \o RichTokensFrom(str, t.next)

\* extractValue without the removal of the quotes
extractValueQuoted(token) ==
    LET eqIdx == IndexOf(token, "=")
    IN IF eqIdx = 0 THEN token ELSE From(token, eqIdx + 1)

extractValue(token) ==
    LET eqIdx == IndexOf(token, "=")
        val == From(token, eqIdx + 1)
    IN IF eqIdx = 0 THEN token
       ELSE IF StartsWith(val, "\"") /\ EndsWith(val, "\"")
       THEN SubSeq(val, 2, Len(val) - 1)
       ELSE val

attrName(token) ==
    LET eqIdx == IndexOf(token, "=")
    IN IF eqIdx = 0 THEN token ELSE SubSeq(token, 1, eqIdx - 1)

\* the walk of parseRichRule is a sequence of stages over [rule, pos];
\* pos is 1-based, so `pos < rawTokens.length` reads At(toks, st)
At(toks, st) == st.pos <= Len(toks)
Tok(toks, st) == toks[st.pos]
Adv(st) == [st EXCEPT !.pos = @ + 1]
SetField(st, k, v) == [st EXCEPT !.rule = Put(@, k, v)]

\* the attribute attr="..." at the cursor, if it is there, stored under field
RichAttr(toks, st, attr, field) ==
    IF At(toks, st) /\ attrName(Tok(toks, st)) = attr
    THEN Adv(SetField(st, field, S(extractValue(Tok(toks, st)))))
    ELSE st

\* invert="..." at the cursor, if it is there
RichInvert(toks, st, field) ==
    IF At(toks, st) /\ attrName(Tok(toks, st)) = "invert"
    THEN Adv(IF extractValue(Tok(toks, st)) = "true"
             THEN SetField(st, field \o "_invert", B(TRUE)) ELSE st)
    ELSE st

\* keyword, then address="..." and invert="..." (source and destination)
RichAddress(toks, st, keyword, field) ==
    IF At(toks, st) /\ Tok(toks, st) = keyword
    THEN RichInvert(toks, RichAttr(toks, Adv(st), "address", field), field)
    ELSE st

\* keyword followed by one attribute
RichNamed(toks, st, attr, field) == RichAttr(toks, Adv(st), attr, field)

\* the attributes attrs[a] -> field collected into obj while they last
RECURSIVE RichAttrs(_, _, _, _)
RichAttrs(toks, pos, obj, attrs) ==
    IF pos <= Len(toks) /\ attrName(toks[pos]) \in DOMAIN attrs
    THEN RichAttrs(toks, pos + 1,
                   Put(obj, attrs[attrName(toks[pos])], S(extractValue(toks[pos]))), attrs)
    ELSE [obj |-> obj, pos |-> pos]

PortAttrs == [port |-> "port", protocol |-> "protocol"]
ForwardPortAttrs == ("port" :> "port") @@ ("protocol" :> "protocol")
                    @@ ("to-port" :> "to_port") @@ ("to-addr" :> "to_addr")

\* the attributes collected by RichAttrs, stored under field (or merged into
\* the rule itself when field is "")
RichStore(st, field, r) ==
    [rule |-> IF field = "" THEN r.obj ELSE Put(st.rule, field, r.obj), pos |-> r.pos]

RichObject(toks, st, field, attrs) ==
    RichStore(st, field,
              RichAttrs(toks, st.pos + 1, IF field = "" THEN st.rule ELSE M(<<>>), attrs))

RichNames ==
    ("service" :> <<"name", "service">>) @@ ("protocol" :> <<"value", "protocol">>)
    @@ ("icmp-block" :> <<"name", "icmp_block">>) @@ ("icmp-type" :> <<"name", "icmp_type">>)

RichObjects ==
    ("port" :> <<"", PortAttrs>>) @@ ("forward-port" :> <<"forward_port", ForwardPortAttrs>>)
    @@ ("source-port" :> <<"source_port", PortAttrs>>)

RichKeyword(toks, st, keyword) ==
    IF keyword \in DOMAIN RichNames
    THEN RichNamed(toks, st, RichNames[keyword][1], RichNames[keyword][2])
    ELSE IF keyword \in DOMAIN RichObjects
    THEN RichObject(toks, st, RichObjects[keyword][1], RichObjects[keyword][2])
    ELSE IF keyword = "masquerade" THEN Adv(SetField(st, "masquerade", B(TRUE)))
    ELSE st

RichElement(toks, st) == IF ~At(toks, st) THEN st ELSE RichKeyword(toks, st, Tok(toks, st))

LogAttrs == {"prefix", "level"}

RECURSIVE RichLogAttrs(_, _, _)
RichLogAttrs(toks, pos, logObj) ==
    IF pos > Len(toks) THEN [obj |-> logObj, pos |-> pos]
    ELSE IF attrName(toks[pos]) \in LogAttrs
    THEN RichLogAttrs(toks, pos + 1,
                      Put(logObj, attrName(toks[pos]), S(extractValue(toks[pos]))))
    ELSE IF attrName(toks[pos]) = "limit"
    THEN IF pos + 1 <= Len(toks) /\ attrName(toks[pos + 1]) = "value"
         THEN RichLogAttrs(toks, pos + 2,
                           Put(logObj, "limit", S(extractValue(toks[pos + 1]))))
         ELSE RichLogAttrs(toks, pos + 1, logObj)
    ELSE [obj |-> logObj, pos |-> pos]

RichLog(toks, st) ==
    IF At(toks, st) /\ Tok(toks, st) = "log"
    THEN RichStore(st, "log", RichLogAttrs(toks, st.pos + 1, M(<<>>)))
    ELSE st

RichAudit(toks, st) ==
    IF At(toks, st) /\ Tok(toks, st) = "audit"
    THEN Adv(SetField(st, "audit", B(TRUE))) ELSE st

\* the attribute that may follow an action
ActionAttrs == ("reject" :> <<"type", "reject_type">>) @@ ("mark" :> <<"set", "mark_set">>)

RichActionWord(toks, st, action) ==
    IF action \in {"accept", "drop"} THEN Adv(SetField(st, "action", S(action)))
    ELSE IF action \in DOMAIN ActionAttrs
    THEN RichAttr(toks, Adv(SetField(st, "action", S(action))),
                  ActionAttrs[action][1], ActionAttrs[action][2])
    ELSE st

RichAction(toks, st) == IF ~At(toks, st) THEN st ELSE RichActionWord(toks, st, Tok(toks, st))

RichRuleWord(toks, st) == IF At(toks, st) /\ Tok(toks, st) = "rule" THEN Adv(st) ELSE st

RichRuleFrom(toks) ==
    RichAction(toks,
      RichAudit(toks,
        RichLog(toks,
          RichElement(toks,
            RichAddress(toks,
              RichAddress(toks,
                RichAttr(toks, RichRuleWord(toks, [rule |-> M(<<>>), pos |-> 1]),
                         "family", "family"),
                "source", "source"),
              "destination", "destination"))))).rule

\* parseRichRule(ruleStr); a flag without value hands it `true`, which has no
\* length, so that no token is read
parseRichRule(value) ==
    RichRuleFrom(IF IsStr(value) THEN RichTokensFrom(value.v, 1) ELSE <<>>)

normalizeFlag(flag) ==
    IF StartsWith(flag, "add-") THEN From(flag, 5)
    ELSE IF StartsWith(flag, "remove-") THEN From(flag, 8)
    ELSE flag

\* if (!zone[field]) zone[field] = []; zone[field].push(x)
Push(zone, field, x) ==
    Put(zone, field,
        L(Append(IF Truthy(Get(zone, field)) THEN Get(zone, field).v ELSE <<>>, x)))

\* one turn of the loop of processZoneCommand: "hit" is `return true`,
\* "miss" falls through to the next flag, "throw" is a TypeError
Hit(zone) == [kind |-> "hit", zone |-> zone]
Miss(zone) == [kind |-> "miss", zone |-> zone]
Throw(zone) == [kind |-> "throw", zone |-> zone]

\* the flags whose value is pushed as it is, and those pushed through parsePort
ZoneLists ==
    ("interface" :> "interfaces") @@ ("source" :> "sources") @@ ("service" :> "services")
    @@ ("protocol" :> "protocols")
ZonePorts == ("port" :> "ports") @@ ("source-port" :> "source_ports")
ZoneSwitches == {"forward", "masquerade"}

ZoneBase(zone, key, base, value) ==
    IF key = "set-target" THEN Hit(Put(zone, "target", value))
    ELSE IF base \in DOMAIN ZoneLists THEN Hit(Push(zone, ZoneLists[base], value))
    ELSE IF base \in DOMAIN ZonePorts
    THEN IF parsePortThrows(value) THEN Throw(zone)
         ELSE Hit(Push(zone, ZonePorts[base], parsePort(value)))
    ELSE IF base = "rich-rule" THEN Hit(Push(zone, "rich_rules", parseRichRule(value)))
    ELSE IF base \in ZoneSwitches /\ value = B(TRUE) THEN Hit(Put(zone, base, B(TRUE)))
    ELSE IF base = "forward-port"
    THEN IF parseForwardPortThrows(value) THEN Throw(zone)
         ELSE Hit(Push(zone, "forward_ports", parseForwardPort(value)))
    ELSE IF base = "icmp-block" /\ IsStr(value) THEN Hit(Push(zone, "icmp_blocks", value))
    ELSE IF base = "icmp-block-inversion" THEN Hit(Put(zone, "icmp_block_inversion", B(TRUE)))
    ELSE Miss(zone)

ZoneFlag(zone, key, value) ==
    IF key \in {"zone", "permanent", "direct"} THEN Miss(zone)
    ELSE ZoneBase(zone, key, normalizeFlag(key), value)

\* processZoneCommand(zone, flags): the first flag that hits decides; r is
\* the outcome of the turns before flag i
RECURSIVE ProcessZoneFrom(_, _, _)
ProcessZoneFrom(r, flags, i) ==
    IF r.kind # "miss" \/ i > Len(flags.v) THEN r
    ELSE ProcessZoneFrom(ZoneFlag(r.zone, flags.v[i][1], flags.v[i][2]), flags, i + 1)

\* the flags taken from the last to the first
processFromLast(zone, flags) ==
    ProcessZoneFrom(Miss(zone),
                    M([i \in 1..Len(flags.v) |-> flags.v[Len(flags.v) + 1 - i]]), 1)

processZoneCommand(zone, flags) == ProcessZoneFrom(Miss(zone), flags, 1)

WhiteSpace == {" ", "\t", "\r"}

\* parseInt(s, 10): NaN unless an optional sign and a digit lead the string
RECURSIVE DigitsValue(_, _)
DigitsValue(s, acc) ==
    IF s = "" \/ IndexOf(Digits, Char(s, 1)) = 0 THEN acc
    ELSE DigitsValue(From(s, 2), acc * 10 + IndexOf(Digits, Char(s, 1)) - 1)

RECURSIVE TrimStart(_)
TrimStart(s) == IF s # "" /\ Char(s, 1) \in WhiteSpace THEN TrimStart(From(s, 2)) ELSE s

RECURSIVE TrimEnd(_)
TrimEnd(s) ==
    IF s # "" /\ Char(s, Len(s)) \in WhiteSpace THEN TrimEnd(SubSeq(s, 1, Len(s) - 1)) ELSE s

Trim(s) == TrimEnd(TrimStart(s))

parseInt(str) ==
    LET t == TrimStart(str)
        neg == StartsWith(t, "-")
        body == IF neg \/ StartsWith(t, "+") THEN From(t, 2) ELSE t
    IN IF body = "" \/ IndexOf(Digits, Char(body, 1)) = 0 THEN NaN
       ELSE N(IF neg THEN 0 - DigitsValue(body, 0) ELSE DigitsValue(body, 0))

DirectActions ==
    {"add-chain", "remove-chain", "add-rule", "remove-rule",
     "add-passthrough", "remove-passthrough"}

\* tokens.indexOf(t), 1-based, 0 if absent
SeqIndexOf(tokens, t) ==
    LET hits == {i \in 1..Len(tokens) : tokens[i] = t}
    IN IF hits = {} THEN 0 ELSE Least(hits)

DirectNo(direct) == [ok |-> FALSE, direct |-> direct]
DirectYes(direct, field, x) ==
    [ok |-> TRUE, direct |-> [direct EXCEPT ![field] = Append(@, x)]]

\* the entry pushed for the positional arguments after the action flag
DirectPositional(direct, base, positional) ==
    IF base = "chain" /\ Len(positional) >= 3
    THEN DirectYes(direct, "chains",
                   M(<<<<"ipv", S(positional[1])>>, <<"table", S(positional[2])>>,
                       <<"chain", S(positional[3])>>>>))
    ELSE IF base = "rule" /\ Len(positional) >= 5
    THEN DirectYes(direct, "rules",
                   M(<<<<"ipv", S(positional[1])>>, <<"table", S(positional[2])>>,
                       <<"chain", S(positional[3])>>,
                       <<"priority", parseInt(positional[4])>>,
                       <<"args", S(Join(SubSeq(positional, 5, Len(positional)), " "))>>>>))
    ELSE IF base = "passthrough" /\ Len(positional) >= 2
    THEN DirectYes(direct, "passthroughs",
                   M(<<<<"ipv", S(positional[1])>>,
                       <<"args", S(Join(SubSeq(positional, 2, Len(positional)), " "))>>>>))
    ELSE DirectNo(direct)

DirectAt(direct, tokens, directAction, flagIdx) ==
    IF flagIdx = 0 THEN DirectNo(direct)
    ELSE DirectPositional(direct, normalizeFlag(directAction),
                          SubSeq(tokens, flagIdx + 1, Len(tokens)))

DirectAction(direct, tokens, directAction) ==
    DirectAt(direct, tokens, directAction, SeqIndexOf(tokens, "--" \o directAction))

DirectFound(direct, flags, tokens, found) ==
    IF found = {} THEN DirectNo(direct)
    ELSE DirectAction(direct, tokens, flags.v[Least(found)][1])

\* processDirectCommand(config, flags, tokens) on the direct block `direct`
processDirectCommand(direct, flags, tokens) ==
    DirectFound(direct, flags, tokens,
                {i \in 1..Len(flags.v) : flags.v[i][1] \in DirectActions})

\* `${c.ipv}|${c.table}|${c.chain}`
deduplicateChainsKey(c) ==
    ToStr(Get(c, "ipv")) \o "|" \o ToStr(Get(c, "table")) \o "|" \o ToStr(Get(c, "chain"))

deduplicateChains(chains) ==
    FirstSeen(chains, [i \in 1..Len(chains) |-> deduplicateChainsKey(chains[i])])

\* if (xs.length > 0) obj[key] = xs
PutList(obj, key, xs) == IF Len(xs) > 0 THEN Put(obj, key, L(xs)) ELSE obj

CleanDirect(direct) ==
    PutList(PutList(PutList(M(<<>>), "chains", deduplicateChains(direct.chains)),
                    "rules", direct.rules),
            "passthroughs", direct.passthroughs)

PutSection(obj, key, section) ==
    IF Len(section.v) > 0 THEN Put(obj, key, section) ELSE obj

\* cleanConfig(config): empty sections are left out
cleanConfig(zones, direct) ==
    PutSection(PutSection(M(<<>>), "zones", zones), "direct", CleanDirect(direct))

WordChars == {Char(Digits, i) : i \in 1..10} \cup {Char(UpperCase, i) : i \in 1..26}
             \cup {Char(LowerCase, i) : i \in 1..26} \cup {"_"}

\* a test that finds no shell variable in any line
NoShellVariable(line) == FALSE

\* /\$(?:\w|\{|\()/.test(line)
HasShellVariable(line) ==
    \E i \in 1..(Len(line) - 1) :
        Char(line, i) = "$" /\ Char(line, i + 1) \in WordChars \cup {"{", "("}

SkipFlags == {"runtime-to-permanent", "check-config", "state", "version"}
SkipPrefixes == {"get-", "list-", "query-"}

isSkippable(flags) ==
    \E k \in KeySet(flags) : k \in SkipFlags \/ \E q \in SkipPrefixes : StartsWith(k, q)

hasModifying(flags) ==
    \E k \in KeySet(flags) :
        StartsWith(k, "add-") \/ StartsWith(k, "remove-") \/ k = "set-target"

EmptyParse ==
    [zones |-> M(<<>>), direct |-> [chains |-> <<>>, rules |-> <<>>, passthroughs |-> <<>>],
     errors |-> <<>>, skipped |-> <<>>, threw |-> FALSE]

Where(i) == "Line " \o NumToStr(i) \o ": "
Skipped(acc, i, msg) == [acc EXCEPT !.skipped = Append(@, Where(i) \o msg)]
Errored(acc, i, msg) == [acc EXCEPT !.errors = Append(@, Where(i) \o msg)]

\* ensureZone(config, zoneName)
ensureZone(zones, zoneName) ==
    IF Truthy(Get(zones, zoneName)) THEN Get(zones, zoneName) ELSE M(<<>>)

\* a zone name without the default: "" unless --zone names one
ZoneNameGiven(flags) == IF Truthy(Get(flags, "zone")) THEN ToStr(Get(flags, "zone")) ELSE ""

\* the zone named by --zone, "public" for a modifying command without one,
\* "" where the code finds no zone name
ZoneNameOf(flags) ==
    IF Truthy(Get(flags, "zone")) THEN ToStr(Get(flags, "zone"))
    ELSE IF hasModifying(flags) THEN "public" ELSE ""

\* the zone is in the configuration whatever processZoneCommand answers
ParseZoneDone(acc, trimmed, i, zoneName, done) ==
    IF done.kind = "throw" THEN [acc EXCEPT !.threw = TRUE]
    ELSE IF done.kind = "hit" THEN [acc EXCEPT !.zones = Put(@, zoneName, done.zone)]
    ELSE [acc EXCEPT !.zones = Put(@, zoneName, done.zone),
                     !.errors = Append(@, Where(i) \o "could not parse zone command: "
                                          \o trimmed)]

ParseZone(acc, trimmed, i, flags, zoneName) ==
    IF zoneName = "" THEN Errored(acc, i, "unrecognized command: " \o trimmed)
    ELSE ParseZoneDone(acc, trimmed, i, zoneName,
                       processZoneCommand(ensureZone(acc.zones, zoneName),
                                          Del(flags, "zone")))

ParseDirect(acc, trimmed, i, direct) ==
    IF direct.ok THEN [acc EXCEPT !.direct = direct.direct]
    ELSE Errored(acc, i, "could not parse direct command: " \o trimmed)

ParseFlagged(acc, trimmed, i, tokens, flags) ==
    IF Truthy(Get(flags, "reload")) \/ Truthy(Get(flags, "complete-reload"))
    THEN Skipped(acc, i, "reload command")
    ELSE IF isSkippable(flags)
    THEN Skipped(acc, i, "non-modifying command (" \o trimmed \o ")")
    ELSE IF Truthy(Get(flags, "direct"))
    THEN ParseDirect(acc, trimmed, i, processDirectCommand(acc.direct, flags, tokens))
    ELSE ParseZone(acc, trimmed, i, flags, ZoneNameOf(flags))

ParseTokens(acc, trimmed, i, tokens) ==
    ParseFlagged(acc, trimmed, i, tokens, Del(parseFlags(tokens), "permanent"))

ParseCommand(acc, trimmed, i, line) ==
    IF ~StartsWith(line, "firewall-cmd") THEN Skipped(acc, i, trimmed)
    ELSE IF HasShellVariable(line)
    THEN Errored(acc, i, "shell variables not supported (expand variables before importing)")
    ELSE ParseTokens(acc, trimmed, i, tokenizeLine(line))

ParseTrimmed(acc, trimmed, i) ==
    IF trimmed = "" THEN acc
    ELSE IF StartsWith(trimmed, "#") THEN Skipped(acc, i, trimmed)
    ELSE ParseCommand(acc, trimmed, i,
                      IF StartsWith(trimmed, "sudo ") THEN From(trimmed, 6) ELSE trimmed)

\* the body of the loop of parseCommands for line i (1-based) of the text
ParseLine(acc, raw, i) == ParseTrimmed(acc, Trim(raw), i)

\* the loop of parseCommands from line n on; an exception ends it
RECURSIVE ParseLines(_, _, _)
ParseLines(acc, lines, n) ==
    IF n > Len(lines) \/ acc.threw THEN acc
    ELSE IF Len(lines) = n THEN ParseLine(acc, lines[n], n)
    ELSE ParseLines(ParseLines(acc, SubSeq(lines, 1, (n + Len(lines)) \div 2), n),
                    lines, ((n + Len(lines)) \div 2) + 1)

ParseResult(acc) ==
    IF acc.threw THEN Thrown
    ELSE Returned([config |-> cleanConfig(acc.zones, acc.direct),
                   errors |-> acc.errors, skipped |-> acc.skipped])

\* parseCommands(text)
parseCommands(text) == ParseResult(ParseLines(EmptyParse, Split(text, "\n"), 1))

-----------------------------------------------------------------------------
(* Expanded configurations handed to the generator *)

MaxZones == 2   \* zones of a configuration
MaxElems == 2   \* elements of a list field

Obj(ps) == M(ps)
Take(xs) == SubSeq(xs, 1, IF Len(xs) < MaxElems THEN Len(xs) ELSE MaxElems)

RuleSsh ==
    M(<<<<"family", S("ipv4")>>, <<"source", S("10.0.0.1")>>, <<"service", S("ssh")>>,
        <<"action", S("accept")>>>>)
RuleLog ==
    M(<<<<"source", S("10.0.0.0/8")>>, <<"source_invert", B(TRUE)>>,
        <<"port", S("3306")>>, <<"protocol", S("tcp")>>,
        <<"log", M(<<<<"prefix", S("DB ACCESS")>>, <<"level", S("info")>>>>)>>,
        <<"action", S("reject")>>, <<"reject_type", S("icmp-port-unreachable")>>>>)
RuleMasq == M(<<<<"family", S("ipv6")>>, <<"masquerade", B(TRUE)>>>>)

\* a zone that sets every field
ZoneA ==
    M(<<<<"target", S("DROP")>>,
        <<"interfaces", L(Take(<<S("eth0"), M(<<<<"value", S("eth1")>>>>), S("wg0")>>))>>,
        <<"sources", L(Take(<<S("10.0.0.0/8"), S("192.168.1.0/24"), S("ipset:lan")>>))>>,
        <<"services", L(Take(<<S("ssh"), M(<<<<"value", S("http")>>>>), S("dns")>>))>>,
        <<"ports", L(Take(<<M(<<<<"port", N(8080)>>>>),
                            M(<<<<"port", S("53")>>, <<"protocol", S("udp")>>>>),
                            S("8443/tcp")>>))>>,
        <<"protocols", L(Take(<<S("icmp"), S("gre"), S("esp")>>))>>,
        <<"source_ports", L(Take(<<M(<<<<"port", S("1024-2048")>>, <<"protocol", S("tcp")>>>>),
                                   N(68),
                                   M(<<<<"port", N(123)>>, <<"protocol", S("udp")>>>>)>>))>>,
        <<"rich_rules", L(Take(<<RuleSsh, RuleLog, RuleMasq>>))>>,
        <<"forward", B(TRUE)>>,
        <<"masquerade", B(TRUE)>>,
        <<"forward_ports",
          L(Take(<<M(<<<<"port", N(80)>>, <<"to_port", N(8080)>>>>),
                   M(<<<<"port", S("443")>>, <<"protocol", S("tcp")>>,
                       <<"to_port", S("8443")>>, <<"to_addr", S("10.0.0.5")>>>>),
                   M(<<<<"port", S("22")>>, <<"protocol", S("tcp")>>,
                       <<"to_addr", S("fd00::5")>>>>)>>))>>,
        <<"icmp_blocks", L(Take(<<S("echo-reply"), S("timestamp-request"), S("redirect")>>))>>,
        <<"icmp_block_inversion", B(TRUE)>>>>)

\* a zone whose scalars are off and whose lists are short
ZoneB ==
    M(<<<<"services", L(<<S("https")>>)>>,
        <<"target", S("default")>>,
        <<"forward", B(FALSE)>>,
        <<"ports", L(<<S("53/udp")>>)>>,
        <<"forward_ports", L(<<M(<<<<"port", S("25")>>, <<"protocol", S("tcp")>>,
                                   <<"to_addr", S("::1")>>>>)>>)>>,
        <<"icmp_block_inversion", B(FALSE)>>>>)

ZoneServices == M(<<<<"services", L(<<S("dns")>>)>>, <<"target", S("ACCEPT")>>>>)

\* the fields of m whose key is in keys, in m's order
Restrict(m, keys) ==
    LET RECURSIVE pick(_)
        pick(i) == IF i > Len(m.v) THEN <<>>
                   ELSE (IF m.v[i][1] \in keys THEN <<m.v[i]>> ELSE <<>>) \o pick(i + 1)
    IN M(pick(1))

ZoneKeys == {ZoneFieldOrder[i] : i \in 1..Len(ZoneFieldOrder)}

\* every field, every field but one, none
ZoneShapes == {ZoneKeys, {}} \cup {ZoneKeys \ {f} : f \in ZoneKeys}

FirstZones == {Restrict(ZoneA, K) : K \in ZoneShapes} \cup {ZoneB}
OtherZones == {ZoneB, ZoneServices}

ZoneNames == <<"public", "dmz", "internal", "work">>

\* n zone names, starting at the r-th name (so that both orders of two names occur)
NameOrder(n, r) == [i \in 1..n |-> ZoneNames[((r + i - 2) % n) + 1]]

ZoneMaps ==
    {M(<<>>)} \cup
    UNION {{M([i \in 1..n |-> <<NameOrder(n, r)[i], IF i = 1 THEN z ELSE o>>]) :
               z \in FirstZones, o \in OtherZones, r \in 1..n} : n \in 1..MaxZones}

ChainDocker == M(<<<<"ipv", S("ipv4")>>, <<"table", S("filter")>>, <<"chain", S("DOCKER-USER")>>>>)
ChainDocker6 == M(<<<<"ipv", S("ipv6")>>, <<"table", S("filter")>>, <<"chain", S("DOCKER-USER")>>>>)

DirectRule(ipv, priority, args) ==
    M(<<<<"ipv", S(ipv)>>, <<"table", S("filter")>>, <<"chain", S("DOCKER-USER")>>,
        <<"priority", N(priority)>>, <<"args", S(args)>>>>)

DirectFull ==
    M(<<<<"chains", L(Take(<<ChainDocker, ChainDocker, ChainDocker6>>))>>,
        <<"rules", L(Take(<<DirectRule("ipv4", 0, "-m conntrack --ctstate RELATED,ESTABLISHED -j ACCEPT"),
                            DirectRule("ipv4", 10, "-j DROP"),
                            DirectRule("ipv6", -1, "-s fd00::/8 -j RETURN")>>))>>,
        <<"passthroughs",
          L(Take(<<M(<<<<"ipv", S("ipv4")>>,
                       <<"args", S("-t nat -A POSTROUTING -o eth0 -j MASQUERADE")>>>>),
                   M(<<<<"ipv", S("ipv6")>>, <<"args", S("-A INPUT -j ACCEPT")>>>>)>>))>>>>)

DirectState ==
    M(<<<<"chains", L(<<ChainDocker, ChainDocker6>>)>>,
        <<"rules", L(<<DirectRule("ipv4", 1, "-m state --state NEW -j ACCEPT")>>)>>>>)

Directs == {Undef, DirectFull, DirectState}

WithDirect(zones, direct) ==
    IF IsUndef(direct) THEN M(<<<<"zones", zones>>>>)
    ELSE M(<<<<"zones", zones>>, <<"direct", direct>>>>)

GenConfigs == {WithDirect(z, d) : z \in ZoneMaps, d \in Directs}

-----------------------------------------------------------------------------
(* A firewall on which a script is run: the settings in force, each named by
   the scope and the text that follows the add / remove verb *)

\* a command line taken apart from the left: the persistence qualifier, the
\* scope (a zone or the direct interface), the verb, the flag name and the
\* text from the flag name on
Decompose(line) ==
    LET a == From(line, Len(CMD) + 2)
        permanent == StartsWith(a, "--permanent ")
        b == IF permanent THEN From(a, Len("--permanent ") + 1) ELSE a
        isZone == StartsWith(b, "--zone=")
        isDirect == StartsWith(b, "--direct ")
        sp == Find(b, " ", 1)
        c == IF isZone \/ isDirect THEN From(b, sp + 1) ELSE b
        verb == IF StartsWith(c, "--add-") THEN "add"
                ELSE IF StartsWith(c, "--remove-") THEN "remove"
                ELSE IF StartsWith(c, "--set-") THEN "set" ELSE ""
        d == IF verb = "" THEN c ELSE From(c, Len(verb) + 4)
    IN [permanent |-> permanent, direct |-> isDirect,
        zone |-> IF isZone THEN SubSeq(b, Len("--zone=") + 1, sp - 1) ELSE "",
        verb |-> verb, flag |-> SubSeq(d, 1, FindAny(d, {"=", " "}, 1) - 1), what |-> d]

Setting(p) == [permanent |-> p.permanent, direct |-> p.direct, zone |-> p.zone, what |-> p.what]

RunLine(settings, line) ==
    IF ~StartsWith(line, CMD) THEN settings
    ELSE LET p == Decompose(line)
             others == {x \in settings :
                           ~(x.zone = p.zone /\ x.permanent = p.permanent
                             /\ StartsWith(x.what, "target="))}
         IN IF p.verb = "set" /\ p.flag = "target"
            THEN (IF p.what = "target=default" THEN others ELSE others \cup {Setting(p)})
            ELSE IF p.verb = "add" THEN settings \cup {Setting(p)}
            ELSE IF p.verb = "remove" THEN settings \ {Setting(p)}
            ELSE settings

\* the lines in turn, by halves; the settings so far are evaluated (their
\* number read) before the lines are taken up
RECURSIVE RunScript(_, _)
RunScript(settings, lines) ==
    IF Len(lines) = 0 \/ Cardinality(settings) < 0 THEN settings
    ELSE IF Len(lines) = 1 THEN RunLine(settings, lines[1])
    ELSE RunScript(RunScript(settings, SubSeq(lines, 1, Len(lines) \div 2)),
                   SubSeq(lines, (Len(lines) \div 2) + 1, Len(lines)))

-----------------------------------------------------------------------------
(* The generator pipeline: apply script, remove script, the apply script read
   back by the reverse parser, and both scripts run on a clean firewall *)

Idle == [threw |-> FALSE, value |-> <<>>]

Init ==
    /\ pc = "start"
    /\ config \in GenConfigs
    /\ runtime \in BOOLEAN
    /\ applyOut = Idle
    /\ removeOut = Idle
    /\ fw = {}
    /\ fragment = Idle
    /\ rule = Undef
    /\ ruleStr = ""
    /\ ruleBack = Undef
    /\ ruleAgain = ""
    /\ doc = Undef
    /\ parsed = Idle
    /\ tabs = Idle
    /\ again = Idle
    /\ script = ""
    /\ existing = Undef
    /\ incoming = Undef
    /\ merged = Idle

GenerateApply ==
    /\ pc = "start"
    /\ applyOut' = generateApply(config, runtime)
    /\ pc' = "applied"
    /\ UNCHANGED <<config, runtime, removeOut, fw, fragment, rule, ruleStr,
                   ruleBack, ruleAgain, doc, parsed, tabs, again, mergeVars>>

GenerateRemove ==
    /\ pc = "applied"
    /\ removeOut' = generateRemove(config, runtime)
    /\ pc' = "removed"
    /\ UNCHANGED <<config, runtime, applyOut, fw, fragment, rule, ruleStr,
                   ruleBack, ruleAgain, doc, parsed, tabs, again, mergeVars>>

\* the apply script, as text, imported again
ParseCommands ==
    /\ pc = "removed"
    /\ ~applyOut.threw
    /\ fragment' = parseCommands(Join(applyOut.value, "\n"))
    /\ pc' = "imported"
    /\ UNCHANGED <<config, runtime, applyOut, removeOut, fw, rule, ruleStr,
                   ruleBack, ruleAgain, doc, parsed, tabs, again, mergeVars>>

RunApply ==
    /\ pc = "imported"
    /\ fw' = RunScript(fw, applyOut.value)
    /\ pc' = "fwApplied"
    /\ UNCHANGED <<config, runtime, applyOut, removeOut, fragment, rule, ruleStr,
                   ruleBack, ruleAgain, doc, parsed, tabs, again, mergeVars>>

RunRemove ==
    /\ pc = "fwApplied"
    /\ fw' = RunScript(fw, removeOut.value)
    /\ pc' = "fwRemoved"
    /\ UNCHANGED <<config, runtime, applyOut, removeOut, fragment, rule, ruleStr,
                   ruleBack, ruleAgain, doc, parsed, tabs, again, mergeVars>>

Next == GenerateApply \/ GenerateRemove \/ ParseCommands \/ RunApply \/ RunRemove

Spec == Init /\ [][Next]_vars

-----------------------------------------------------------------------------
(* Reading a script back: each command line is placed by its text alone *)

Reload == CMD \o " --reload"

\* the command lines of a script: neither comments nor blank lines
IsCommand(line) == StartsWith(line, CMD)
CommandLines(lines) == SelectSeq(lines, IsCommand)

\* the field order of a zone and the flag each field is emitted under
FieldNames ==
    <<"target", "interfaces", "sources", "services", "ports", "protocols",
      "source_ports", "rich_rules", "forward", "masquerade", "forward_ports",
      "icmp_blocks", "icmp_block_inversion">>
FieldFlags ==
    <<"target", "interface", "source", "service", "port", "protocol",
      "source-port", "rich-rule", "forward", "masquerade", "forward-port",
      "icmp-block", "icmp-block-inversion">>
DirectFlags == <<"chain", "rule", "passthrough">>
ListFieldNames ==
    {"interfaces", "sources", "services", "ports", "protocols", "source_ports",
     "rich_rules", "forward_ports", "icmp_blocks"}

\* <<section, zone, field>> of a command line; 0 where the text names none
LineKey(line, names, zoneSection, directSection) ==
    LET p == Decompose(line)
    IN IF line = Reload THEN <<3, 0, 0>>
       ELSE IF p.direct THEN <<directSection, 0, SeqIndexOf(DirectFlags, p.flag)>>
       ELSE <<zoneSection, SeqIndexOf(names, p.zone), SeqIndexOf(FieldFlags, p.flag)>>

Placed(k, zoneSection) ==
    k[1] = 3 \/ (k[3] > 0 /\ (k[1] = zoneSection => k[2] > 0))

LexLeq(a, b) ==
    \/ a[1] < b[1]
    \/ a[1] = b[1] /\ a[2] < b[2]
    \/ a[1] = b[1] /\ a[2] = b[2] /\ a[3] <= b[3]

\* the persistent command lines that carry the key k, in script order
LinesAt(cmds, keys, k) ==
    LET here(i) == keys[i] = k /\ StartsWith(cmds[i], CMD \o " --permanent ")
        at == SelectSeq([i \in 1..Len(cmds) |-> i], here)
    IN [j \in 1..Len(at) |-> cmds[at[j]]]

\* what a list element is written as after the "=" of its flag
ElemText(field, x) ==
    CASE field \in {"ports", "source_ports"} -> PortText(x)
      [] field = "forward_ports" -> ForwardPortText(x)
      [] field = "rich_rules" -> "'" \o buildRichRule(x) \o "'"
      [] OTHER -> ToStr(ValueOf(x))

\* every list field of every zone has one line per element, in list order
ZoneListsInOrder(cmds, keys, cfg, zoneSection) ==
    \A z \in 1..Len(ZoneEntries(cfg)) : \A r \in 1..Len(FieldNames) :
        FieldNames[r] \in ListFieldNames =>
            LET xs == Elems(ZoneEntries(cfg)[z][2], FieldNames[r])
                mine == LinesAt(cmds, keys, <<zoneSection, z, r>>)
            IN /\ Len(mine) = Len(xs)
               /\ \A j \in 1..Len(xs) :
                      EndsWith(mine[j], "-" \o FieldFlags[r] \o "="
                                        \o ElemText(FieldNames[r], xs[j]))

\* the rules and passthroughs have one line each, in list order; the chain
\* lines follow the order in which the chains are first listed
DirectListsInOrder(cmds, keys, cfg, directSection) ==
    LET direct == Get(cfg, "direct")
        chains == Elems(direct, "chains")
        rules == Elems(direct, "rules")
        pts == Elems(direct, "passthroughs")
        chainLines == LinesAt(cmds, keys, <<directSection, 0, 1>>)
        ruleLines == LinesAt(cmds, keys, <<directSection, 0, 2>>)
        ptLines == LinesAt(cmds, keys, <<directSection, 0, 3>>)
        names(line) == {k \in 1..Len(chains) : EndsWith(line, "-chain " \o ChainKey(chains[k]))}
        first(line) == CHOOSE k \in names(line) : \A m \in names(line) : k <= m
    IN /\ \A j \in 1..Len(chainLines) : names(chainLines[j]) # {}
       /\ \A j \in 1..(Len(chainLines) - 1) : first(chainLines[j]) < first(chainLines[j + 1])
       /\ \A k \in 1..Len(chains) : \E j \in 1..Len(chainLines) : k \in names(chainLines[j])
       /\ Len(ruleLines) = Len(rules)
       /\ \A j \in 1..Len(rules) :
              EndsWith(ruleLines[j], "-rule " \o ChainKey(rules[j]) \o " "
                                     \o ToStr(Get(rules[j], "priority")) \o " "
                                     \o ToStr(Get(rules[j], "args")))
       /\ Len(ptLines) = Len(pts)
       /\ \A j \in 1..Len(pts) :
              EndsWith(ptLines[j], "-passthrough " \o ToStr(Get(pts[j], "ipv")) \o " "
                                   \o ToStr(Get(pts[j], "args")))

ZoneNamesOf(cfg) == [i \in 1..Len(ZoneEntries(cfg)) |-> ZoneEntries(cfg)[i][1]]

\* the lines are placed, in non-decreasing key order, lists in list order, and
\* without the runtime option the one reload line ends the script
ScriptInOrder(lines, cfg, rt, zoneSection, directSection) ==
    LET cmds == CommandLines(lines)
        names == ZoneNamesOf(cfg) \o <<>>
        keys == [i \in 1..Len(cmds) |->
                    LineKey(cmds[i], names, zoneSection, directSection)] \o <<>>
    IN /\ \A i \in 1..Len(cmds) : Placed(keys[i], zoneSection)
       /\ \A i \in 1..(Len(cmds) - 1) : LexLeq(keys[i], keys[i + 1])
       /\ ZoneListsInOrder(cmds, keys, cfg, zoneSection)
       /\ DirectListsInOrder(cmds, keys, cfg, directSection)
       /\ ~rt => /\ lines[Len(lines)] = Reload
                 /\ Cardinality({i \in 1..Len(lines) : lines[i] = Reload}) = 1

-----------------------------------------------------------------------------
\* C1: the apply script lists the zones in insertion order, the fields of a
\* zone in the fixed field order with list elements in list order, then the
\* direct chains, rules and passthroughs, and (without the runtime option)
\* exactly one reload line, which is the last line
C1_ApplyOrder ==
    (pc = "applied" /\ ~applyOut.threw) =>
        /\ ScriptInOrder(applyOut.value, config, runtime, 1, 2)
        /\ \A i \in 1..Len(applyOut.value) :
               IsCommand(applyOut.value[i]) /\ applyOut.value[i] # Reload =>
                   Decompose(applyOut.value[i]).verb \in {"add", "set"}

C1_Witness ==
    /\ pc = "applied"
    /\ ~runtime
    /\ Len(ZoneEntries(config)) = 2
    /\ KeySet(ZoneEntries(config)[1][2]) = ZoneKeys
    /\ Len(Elems(Get(config, "direct"), "rules")) = 2
    /\ Len(CommandLines(applyOut.value)) > 20

\* C2: the remove script lists every direct command before any zone command,
\* the zones and their fields in the order of the apply script, the reload
\* line last; and its lines are those of the apply script other than the
\* target lines, with the verb add replaced by remove
C2_RemoveMirrorsApply ==
    (pc = "removed" /\ ~removeOut.threw) =>
        LET a == CommandLines(applyOut.value)
            isDirect(l) == Decompose(l).direct
            isZoneField(l) == Decompose(l).zone # "" /\ Decompose(l).verb # "set"
            mirrored(ls) == [i \in 1..Len(ls) |-> ReplaceFirst(ls[i], " --add-", " --remove-")]
        IN /\ ScriptInOrder(removeOut.value, config, runtime, 2, 1)
           /\ CommandLines(removeOut.value)
                  = mirrored(SelectSeq(a, isDirect)) \o mirrored(SelectSeq(a, isZoneField))
                    \o (IF runtime THEN <<>> ELSE <<Reload>>)

C2_Witness ==
    /\ pc = "removed"
    /\ ~runtime
    /\ Len(ZoneEntries(config)) = 2
    /\ KeySet(ZoneEntries(config)[1][2]) = ZoneKeys
    /\ Len(Elems(Get(config, "direct"), "passthroughs")) = 2
    /\ Len(CommandLines(removeOut.value)) > 20

\* C3: on a clean firewall, the lines of the apply script followed by the
\* lines of the remove script leave the firewall clean
C3_RemoveRestoresClean == pc = "fwRemoved" => fw = {}

\* a port text with the protocol it defaults to
WithProtocol(text) == IF Contains(text, "/") THEN text ELSE text \o "/tcp"

\* an element g of the imported fragment stands for the element x of the
\* configuration: both are written as the same command text
Recovered(field, x, g) ==
    CASE field \in {"ports", "source_ports"} ->
             IsMap(g) /\ PortText(g) = WithProtocol(PortText(x))
      [] field = "forward_ports" ->
             IsMap(g) /\ ForwardPortText(g) = ForwardPortText(x)
      [] field = "chains" -> ChainKey(g) = ChainKey(x)
      [] field = "rules" ->
             /\ ChainKey(g) = ChainKey(x)
             /\ Get(g, "priority") = Get(x, "priority")
             /\ Get(g, "args") = Get(x, "args")
      [] field = "passthroughs" ->
             Get(g, "ipv") = Get(x, "ipv") /\ Get(g, "args") = Get(x, "args")
      [] OTHER -> g = S(ToStr(ValueOf(x)))

\* xs from its i-th element on is recovered, in order, within gs from its j-th
RECURSIVE RecoveredFrom(_, _, _, _, _)
RecoveredFrom(field, xs, gs, i, j) ==
    IF i > Len(xs) THEN TRUE
    ELSE IF j > Len(gs) THEN FALSE
    ELSE IF Recovered(field, xs[i], gs[j]) THEN RecoveredFrom(field, xs, gs, i + 1, j + 1)
    ELSE RecoveredFrom(field, xs, gs, i, j + 1)

ZoneRecovered(zone, back) ==
    /\ \A f \in ListFieldNames \ {"rich_rules"} :
           RecoveredFrom(f, Elems(zone, f), Elems(back, f), 1, 1)
    /\ ~IsUndef(Get(zone, "target")) => Get(back, "target") = S(ToStr(Get(zone, "target")))
    /\ \A f \in {"forward", "masquerade", "icmp_block_inversion"} :
           Get(zone, f) = B(TRUE) => Get(back, f) = B(TRUE)

\* (a chain listed twice is one chain)
DirectRecovered(direct, back) ==
    /\ RecoveredFrom("chains", DistinctChains(direct), Elems(back, "chains"), 1, 1)
    /\ \A f \in {"rules", "passthroughs"} :
           RecoveredFrom(f, Elems(direct, f), Elems(back, f), 1, 1)

\* C4: the apply script of a literal configuration is imported without an
\* error, and the fragment holds, in the same zone and order, an equivalent
\* of every list element, scalar, chain, rule and passthrough
C4_ImportRecoversConfig ==
    pc = "imported" =>
        /\ ~fragment.threw
        /\ fragment.value.errors = <<>>
        /\ \A i \in 1..Len(ZoneEntries(config)) :
               ZoneRecovered(ZoneEntries(config)[i][2],
                             Get(Get(fragment.value.config, "zones"),
                                 ZoneEntries(config)[i][1]))
        /\ Truthy(Get(config, "direct")) =>
               DirectRecovered(Get(config, "direct"), Get(fragment.value.config, "direct"))

-----------------------------------------------------------------------------
(* Rich rules through buildRichRule, parseRichRule and buildRichRule again *)

genVars == <<config, runtime, applyOut, removeOut, fw, fragment>>
richVars == <<rule, ruleStr, ruleBack, ruleAgain>>
docVars == <<doc, parsed, tabs, again>>

FamilyParts == {<<>>, <<<<"family", S("ipv4")>>>>}
SourceParts ==
    {<<>>, <<<<"source", S("10.0.0.1")>>>>,
     <<<<"source", S("10.0.0.0/8")>>, <<"source_invert", B(TRUE)>>>>}
DestinationParts ==
    {<<>>, <<<<"destination", S("192.168.1.10")>>, <<"destination_invert", B(TRUE)>>>>}
ElementParts ==
    {<<>>,
     <<<<"service", S("ssh")>>>>,
     <<<<"port", S("8080-8090")>>, <<"protocol", S("tcp")>>>>,
     <<<<"protocol", S("gre")>>>>,
     <<<<"icmp_block", S("echo-request")>>>>,
     <<<<"icmp_type", S("echo-reply")>>>>,
     <<<<"masquerade", B(TRUE)>>>>,
     <<<<"forward_port", M(<<<<"port", S("80")>>, <<"protocol", S("tcp")>>,
                              <<"to_port", S("8080")>>>>)>>>>,
     <<<<"forward_port", M(<<<<"port", S("443")>>, <<"protocol", S("tcp")>>,
                              <<"to_port", S("8443")>>, <<"to_addr", S("10.0.0.5")>>>>)>>>>,
     <<<<"source_port", M(<<<<"port", S("68")>>, <<"protocol", S("udp")>>>>)>>>>}
LogParts ==
    {<<>>,
     <<<<"log", M(<<>>)>>>>,
     <<<<"log", M(<<<<"prefix", S("fw drop: ")>>>>)>>>>,
     <<<<"log", M(<<<<"limit", S("3/m")>>, <<"level", S("info")>>,
                     <<"prefix", S("ssh")>>>>)>>>>}
AuditParts == {<<>>, <<<<"audit", B(TRUE)>>>>}
ActionParts ==
    {<<>>,
     <<<<"action", S("accept")>>>>,
     <<<<"action", S("drop")>>>>,
     <<<<"action", S("reject")>>>>,
     <<<<"action", S("reject")>>, <<"reject_type", S("icmp-port-unreachable")>>>>,
     <<<<"action", S("mark")>>>>,
     <<<<"action", S("mark")>>, <<"mark_set", S("0x1/0xff")>>>>}

\* rich rules in canonical form; the action is written first, as YAML allows
CanonicalRules ==
    {M(x \o f \o s \o d \o e \o l \o a) :
        x \in ActionParts, f \in FamilyParts, s \in SourceParts, d \in DestinationParts,
        e \in ElementParts, l \in LogParts, a \in AuditParts}

InitRich ==
    /\ pc = "rich"
    /\ rule \in CanonicalRules
    /\ ruleStr = ""
    /\ ruleBack = Undef
    /\ ruleAgain = ""
    /\ config = Undef
    /\ runtime = FALSE
    /\ applyOut = Idle
    /\ removeOut = Idle
    /\ fw = {}
    /\ fragment = Idle
    /\ doc = Undef
    /\ parsed = Idle
    /\ tabs = Idle
    /\ again = Idle
    /\ script = ""
    /\ existing = Undef
    /\ incoming = Undef
    /\ merged = Idle

BuildRichRule ==
    /\ pc = "rich"
    /\ ruleStr' = buildRichRule(rule)
    /\ pc' = "richBuilt"
    /\ UNCHANGED <<rule, ruleBack, ruleAgain, genVars, docVars, mergeVars>>

ParseRichRule ==
    /\ pc = "richBuilt"
    /\ ruleBack' = parseRichRule(S(ruleStr))
    /\ pc' = "richParsed"
    /\ UNCHANGED <<rule, ruleStr, ruleAgain, genVars, docVars, mergeVars>>

RebuildRichRule ==
    /\ pc = "richParsed"
    /\ ruleAgain' = buildRichRule(ruleBack)
    /\ pc' = "richRebuilt"
    /\ UNCHANGED <<rule, ruleStr, ruleBack, genVars, docVars, mergeVars>>

NextRich == BuildRichRule \/ ParseRichRule \/ RebuildRichRule

SpecRich == InitRich /\ [][NextRich]_vars

\* the same keys with the same values, whatever the order of the keys
SameFields(a, b) ==
    /\ IsMap(a) /\ IsMap(b)
    /\ Len(a.v) = Len(b.v)
    /\ {a.v[i] : i \in 1..Len(a.v)} = {b.v[i] : i \in 1..Len(b.v)}

SameRule(a, b) ==
    /\ IsMap(a) /\ IsMap(b)
    /\ Len(a.v) = Len(b.v)
    /\ KeySet(a) = KeySet(b)
    /\ \A k \in KeySet(a) :
           IF IsMap(Get(a, k)) THEN SameFields(Get(a, k), Get(b, k))
           ELSE Get(a, k) = Get(b, k)

\* what opens each clause of a rendered rule, clause by clause
ClauseMarks ==
    <<{" family=\""}, {" source address=\""}, {" destination address=\""},
      {" service name=\"", " port port=\"", " protocol value=\"", " icmp-block name=\"",
       " icmp-type name=\"", " masquerade", " forward-port port=\"",
       " source-port port=\""},
      {" log"}, {" audit"}>>
ClauseKeys ==
    <<{"family"}, {"source"}, {"destination"},
      {"service", "port", "protocol", "icmp_block", "icmp_type", "masquerade",
       "forward_port", "source_port"},
      {"log"}, {"audit"}>>

\* where the clause starts in s, 0 if s has no such clause
ClauseAt(s, marks) ==
    LET hits == {IndexOf(s, m) : m \in marks} \ {0}
    IN IF hits = {} THEN 0 ELSE Least(hits)

\* the action clause of a canonical rule
ActionClause(r) ==
    " " \o Get(r, "action").v
    \o (IF Has(r, "reject_type") THEN " type=\"" \o Get(r, "reject_type").v \o "\""
        ELSE IF Has(r, "mark_set") THEN " set=\"" \o Get(r, "mark_set").v \o "\""
        ELSE "")

InRenderedOrder(r, s, at) ==
    /\ StartsWith(s, "rule")
    /\ \A k \in 1..6 : (at[k] > 0) <=> (KeySet(r) \cap ClauseKeys[k] # {})
    /\ \A j, k \in 1..6 : (j < k /\ at[j] > 0 /\ at[k] > 0) => at[j] < at[k]
    /\ Has(r, "action") =>
           /\ EndsWith(s, ActionClause(r))
           /\ \A k \in 1..6 : at[k] < Len(s) - Len(ActionClause(r)) + 1

\* C5: a canonical rich rule is parsed back from its rendering as the same
\* rule, the rendering of the parsed rule is the same string, and the
\* rendering has its clauses in the order family, source, destination, element,
\* log, audit, action, the action being last
C5_RichRuleRoundTrip ==
    /\ pc \in {"richBuilt", "richParsed", "richRebuilt"} =>
           InRenderedOrder(rule, ruleStr,
                           [k \in 1..6 |-> ClauseAt(ruleStr, ClauseMarks[k])] \o <<>>)
    /\ pc \in {"richParsed", "richRebuilt"} => SameRule(ruleBack, rule)
    /\ pc = "richRebuilt" => ruleAgain = ruleStr

C5_Witness ==
    /\ pc = "richRebuilt"
    /\ KeySet(rule) = {"action", "reject_type", "family", "source", "source_invert",
                       "destination", "destination_invert", "forward_port", "log", "audit"}
    /\ Has(Get(rule, "forward_port"), "to_addr")
    /\ Has(Get(rule, "log"), "limit")
    /\ SameRule(ruleBack, rule)
    /\ ruleAgain = ruleStr

-----------------------------------------------------------------------------
(* template-engine.mjs *)

\* a sequence given as a function, element by element, as a sequence value
Materialise(f) == f \o <<>>

\* \s of the patterns, over the blank characters that documents hold here
Blank == {" ", "\t", "\n", "\r"}

\* the first index >= i at which s holds a character outside cs
SkipAny(s, cs, i) ==
    LET hits == {j \in i..Len(s) : Char(s, j) \notin cs}
    IN IF hits = {} THEN Len(s) + 1 ELSE Least(hits)

NoMatch == [ok |-> FALSE, name |-> "", next |-> 0]

\* VAR_PATTERN /\{\{\s*(\w+)\s*\}\}/ tried at index i of s: the name and the
\* index after the match; a is where the name starts, b where it ends, c
\* where the closing braces are due
VarClose(s, a, b, c) ==
    IF b > a /\ c + 1 <= Len(s) /\ SubSeq(s, c, c + 1) = "}}"
    THEN [ok |-> TRUE, name |-> SubSeq(s, a, b - 1), next |-> c + 2]
    ELSE NoMatch
VarWord(s, a, b) == VarClose(s, a, b, SkipAny(s, Blank, b))
VarOpen(s, a) == VarWord(s, a, SkipAny(s, WordChars, a))
VarAt(s, i) ==
    IF i + 1 <= Len(s) /\ SubSeq(s, i, i + 1) = "{{"
    THEN VarOpen(s, SkipAny(s, Blank, i + 2)) ELSE NoMatch

FirstOf(hits) == IF hits = {} THEN 0 ELSE Least(hits)

\* where the pattern matches first at or after pos, 0 if nowhere
FirstVar(s, pos) == FirstOf({i \in pos..(Len(s) - 1) : VarAt(s, i).ok})

\* ITEM_PATTERN /\{\{\s*item\s*\}\}/ and IPV_ANY_PATTERN, by the name they hold
FirstNamed(s, name, pos) ==
    FirstOf({i \in pos..(Len(s) - 1) : VarAt(s, i).ok /\ VarAt(s, i).name = name})

\* a callback that substitutes nothing
VarValueKept(variables, name, match) == match

\* the callback of substituteScalars: what replaces the match
VarValue(variables, name, match) ==
    IF name = "item" THEN match
    ELSE IF ~Has(variables, name) THEN match
    ELSE IF IsList(Get(variables, name)) THEN match
    ELSE ToStr(Get(variables, name))

VarWarning(variables, name) ==
    IF name # "item" /\ ~Has(variables, name) THEN <<name>> ELSE <<>>

SubstituteJoin(head, w, rest) ==
    [result |-> head \o rest.result, warnings |-> w \o rest.warnings]

\* str.replace(VAR_PATTERN, callback) from pos on, i being the first match
RECURSIVE SubstituteFrom(_, _, _, _)
SubstituteFrom(s, variables, pos, i) ==
    IF i = 0 THEN [result |-> From(s, pos), warnings |-> <<>>]
    ELSE LET m == VarAt(s, i)
         IN SubstituteJoin(
                SubSeq(s, pos, i - 1)
                    \o VarValue(variables, m.name, SubSeq(s, i, m.next - 1)),
                VarWarning(variables, m.name),
                SubstituteFrom(s, variables, m.next, FirstVar(s, m.next)))

AsValue(r) == [result |-> S(r.result), warnings |-> r.warnings]

\* substituteScalars(str, variables)
substituteScalars(str, variables) ==
    IF ~IsStr(str) THEN [result |-> str, warnings |-> <<>>]
    ELSE AsValue(SubstituteFrom(str.v, variables, 1, FirstVar(str.v, 1)))

\* extractVariables(config): {...config.variables}
extractVariablesOf(v) ==
    IF IsMap(v) THEN v
    ELSE IF IsList(v) THEN M([i \in 1..Len(v.v) |-> <<NumToStr(i - 1), v.v[i]>>])
    ELSE M(<<>>)

extractVariables(cfg) ==
    IF ~Truthy(cfg) THEN M(<<>>) ELSE extractVariablesOf(Get(cfg, "variables"))

ResolveItems(items, variables) ==
    L(Materialise([i \in 1..Len(items) |-> substituteScalars(items[i], variables).result]))

ResolveValue(value, variables) ==
    IF IsStr(value) THEN substituteScalars(value, variables).result
    ELSE IF IsList(value) THEN ResolveItems(value.v, variables)
    ELSE value

\* a resolution that leaves every value as it is
resolveNothing(variables) == variables

\* resolveVariables(variables)
resolveVariables(variables) ==
    M(Materialise([i \in 1..Len(variables.v) |->
                      <<variables.v[i][1], ResolveValue(variables.v[i][2], variables)>>]))

WalkedList(rs) ==
    [result |-> L(Materialise([i \in 1..Len(rs) |-> rs[i].result])),
     warnings |-> Concat([i \in 1..Len(rs) |-> rs[i].warnings])]

WalkedMap(node, rs) ==
    [result |-> M(Materialise([i \in 1..Len(rs) |-> <<node.v[i][1], rs[i].result>>])),
     warnings |-> Concat([i \in 1..Len(rs) |-> rs[i].warnings])]

\* walk(node) of substituteObject
RECURSIVE Walk(_, _)
Walk(node, variables) ==
    IF IsStr(node) THEN substituteScalars(node, variables)
    ELSE IF IsList(node)
    THEN WalkedList(Materialise([i \in 1..Len(node.v) |-> Walk(node.v[i], variables)]))
    ELSE IF IsMap(node)
    THEN WalkedMap(node,
                   Materialise([i \in 1..Len(node.v) |-> Walk(node.v[i][2], variables)]))
    ELSE [result |-> node, warnings |-> <<>>]

\* substituteObject(obj, variables)
substituteObject(obj, variables) == Walk(obj, variables)

\* the replacement text of String.prototype.replace for the match s[i..next-1]:
\* $$ is a dollar and $& the match (the patterns that insert what precedes and
\* what follows the match are left out: no value here holds them)
RECURSIVE Substitution(_, _, _, _, _)
Substitution(text, s, i, next, pos) ==
    LET d == Find(text, "$", pos)
        c == IF d < Len(text) THEN Char(text, d + 1) ELSE ""
    IN IF d > Len(text) THEN From(text, pos)
       ELSE IF c = "$" THEN SubSeq(text, pos, d) \o Substitution(text, s, i, next, d + 2)
       ELSE IF c = "&"
       THEN SubSeq(text, pos, d - 1) \o SubSeq(s, i, next - 1)
            \o Substitution(text, s, i, next, d + 2)
       ELSE SubSeq(text, pos, d) \o Substitution(text, s, i, next, d + 1)

\* s.replace(pattern, text) from pos on, i being the first match
RECURSIVE ReplaceNamedFrom(_, _, _, _, _)
ReplaceNamedFrom(s, name, text, pos, i) ==
    IF i = 0 THEN From(s, pos)
    ELSE SubSeq(s, pos, i - 1) \o Substitution(text, s, i, VarAt(s, i).next, 1)
         \o ReplaceNamedFrom(s, name, text, VarAt(s, i).next,
                             FirstNamed(s, name, VarAt(s, i).next))

ReplaceNamed(s, name, text) == ReplaceNamedFrom(s, name, text, 1, FirstNamed(s, name, 1))

\* the copy of an item for one loop value: {{ item }} is replaced in the
\* string values of the copy itself
LoopCopy(copy, text) ==
    M(Materialise([i \in 1..Len(copy.v) |->
                      <<copy.v[i][1],
                        IF IsStr(copy.v[i][2])
                        THEN S(ReplaceNamed(copy.v[i][2].v, "item", text))
                        ELSE copy.v[i][2]>>]))

Kept(item, w) == [threw |-> FALSE, items |-> <<item>>, warnings |-> w]

LoopCopies(item, loopValues) ==
    [threw |-> FALSE,
     items |-> Materialise([j \in 1..Len(loopValues) |->
                               LoopCopy(Del(item, "loop"), ToStr(loopValues[j]))]),
     warnings |-> <<>>]

LoopNamed(item, variables, arrayName) ==
    IF ~IsList(Get(variables, arrayName))
    THEN Kept(item, <<"Loop variable '" \o arrayName \o "' is not an array">>)
    ELSE LoopCopies(item, Get(variables, arrayName).v)

LoopRef(item, variables, loopRef, i) ==
    IF i = 0 THEN Kept(item, <<"Invalid loop reference: " \o loopRef>>)
    ELSE LoopNamed(item, variables, VarAt(loopRef, i).name)

\* one turn of the loop of expandLoops; loopRef.match is a TypeError when the
\* loop value is truthy and not a string
ExpandItem(item, variables) ==
    IF ~(IsMap(item) /\ Truthy(Get(item, "loop"))) THEN Kept(item, <<>>)
    ELSE IF ~IsStr(Get(item, "loop"))
    THEN [threw |-> TRUE, items |-> <<>>, warnings |-> <<>>]
    ELSE LoopRef(item, variables, Get(item, "loop").v, FirstVar(Get(item, "loop").v, 1))

Gathered(rs) ==
    [threw |-> \E i \in 1..Len(rs) : rs[i].threw,
     result |-> L(Concat([i \in 1..Len(rs) |-> rs[i].items])),
     warnings |-> Concat([i \in 1..Len(rs) |-> rs[i].warnings])]

\* expandLoops(items, variables)
expandLoops(items, variables) ==
    IF ~IsList(items) THEN [threw |-> FALSE, result |-> items, warnings |-> <<>>]
    ELSE Gathered(Materialise([i \in 1..Len(items.v) |-> ExpandItem(items.v[i], variables)]))

\* IPV_ANY_MAP[ipv] || "0.0.0.0/0"
\* a wildcard address that is the same for both families
AnyAddrV4(ipv) == "0.0.0.0/0"

\* IPV_ANY_MAP[ipv] || "0.0.0.0/0"
AnyAddr(ipv) == IF ipv = S("ipv6") THEN "::/0" ELSE "0.0.0.0/0"

GroupArgs(x, anyAddr) ==
    IF IsStr(Get(x, "args")) THEN S(ReplaceNamed(Get(x, "args").v, "ipv_any", anyAddr))
    ELSE Get(x, "args")

\* if (x.loop) expanded.loop = x.loop
WithLoop(expanded, x) ==
    IF Truthy(Get(x, "loop")) THEN Put(expanded, "loop", Get(x, "loop")) ELSE expanded

GroupChain(group, ipv) ==
    M(<<<<"ipv", ipv>>, <<"table", Get(group, "table")>>, <<"chain", Get(group, "chain")>>>>)

GroupRule(group, ipv, r) ==
    WithLoop(M(<<<<"ipv", ipv>>, <<"table", Get(group, "table")>>,
                 <<"chain", Get(group, "chain")>>, <<"priority", Get(r, "priority")>>,
                 <<"args", GroupArgs(r, AnyAddr(ipv))>>>>), r)

GroupPassthrough(ipv, pt) ==
    WithLoop(M(<<<<"ipv", ipv>>, <<"args", GroupArgs(pt, AnyAddr(ipv))>>>>), pt)

\* Array.isArray(group.ipv) ? group.ipv : [group.ipv]
IpvList(group) == IF IsList(Get(group, "ipv")) THEN Get(group, "ipv").v ELSE <<Get(group, "ipv")>>

\* what one group pushes to direct[field], ipv by ipv
GroupEntries(group, field, ipvList) ==
    Concat([j \in 1..Len(ipvList) |->
               CASE field = "chains" -> <<GroupChain(group, ipvList[j])>>
                 [] field = "rules" ->
                        [k \in 1..Len(Elems(group, "rules")) |->
                            GroupRule(group, ipvList[j], Elems(group, "rules")[k])]
                 [] OTHER ->
                        [k \in 1..Len(Elems(group, "passthroughs")) |->
                            GroupPassthrough(ipvList[j], Elems(group, "passthroughs")[k])]])

\* a property read on a group, rule or passthrough that is null
GroupThrows(group) ==
    \/ Nullish(group)
    \/ /\ Len(IpvList(group)) > 0
       /\ \E f \in {"rules", "passthroughs"} :
              \E k \in 1..Len(Elems(group, f)) : Nullish(Elems(group, f)[k])

\* if (!direct[field]) direct[field] = []
Defaulted(direct, field) ==
    IF ~Truthy(Get(direct, field)) THEN Put(direct, field, L(<<>>)) ELSE direct

\* direct[field].push(...) for every group; push on what is no list is a TypeError
Pushed(st, field, groups) ==
    IF st.threw THEN st
    ELSE IF ~IsList(Get(st.direct, field))
    THEN [st EXCEPT !.threw =
             \E g \in 1..Len(groups) :
                 Len(GroupEntries(groups[g], field, IpvList(groups[g]))) > 0]
    ELSE [st EXCEPT !.direct =
             Put(@, field,
                 L(Get(@, field).v
                   \o Concat([g \in 1..Len(groups) |->
                                 GroupEntries(groups[g], field, IpvList(groups[g]))])))]

GroupsExpanded(st) == IF st.threw THEN st ELSE [st EXCEPT !.direct = Del(@, "rule_groups")]

\* expandRuleGroups(direct)
expandRuleGroups(direct) ==
    IF ~Truthy(direct) \/ ~IsList(Get(direct, "rule_groups"))
    THEN [threw |-> FALSE, direct |-> direct]
    ELSE IF \E g \in 1..Len(Get(direct, "rule_groups").v) :
                GroupThrows(Get(direct, "rule_groups").v[g])
    THEN [threw |-> TRUE, direct |-> direct]
    ELSE GroupsExpanded(
             Pushed(Pushed(Pushed([threw |-> FALSE,
                                   direct |-> Defaulted(Defaulted(Defaulted(direct, "chains"),
                                                                  "rules"), "passthroughs")],
                                  "chains", Get(direct, "rule_groups").v),
                           "rules", Get(direct, "rule_groups").v),
                    "passthroughs", Get(direct, "rule_groups").v))

\* a value of a zone or of direct through expandLoops and substituteObject;
\* a string value of a zone through substituteScalars
Unthrown(w, r) == [threw |-> FALSE, result |-> r.result, warnings |-> w \o r.warnings]

Looped(e, variables) ==
    IF e.threw THEN [threw |-> TRUE, result |-> Undef, warnings |-> <<>>]
    ELSE Unthrown(e.warnings, substituteObject(e.result, variables))

TemplateValue(value, variables, strings) ==
    IF IsList(value) THEN Looped(expandLoops(value, variables), variables)
    ELSE IF strings /\ IsStr(value) THEN Unthrown(<<>>, substituteScalars(value, variables))
    ELSE [threw |-> FALSE, result |-> value, warnings |-> <<>>]

TemplateEntries(m, rs) ==
    [threw |-> \E i \in 1..Len(rs) : rs[i].threw,
     result |-> M(Materialise([i \in 1..Len(rs) |-> <<m.v[i][1], rs[i].result>>])),
     warnings |-> Concat([i \in 1..Len(rs) |-> rs[i].warnings])]

\* the loop over Object.entries(m) of processTemplate, m being a mapping
TemplateMap(m, variables, strings) ==
    TemplateEntries(m, Materialise([i \in 1..Len(m.v) |->
                                       TemplateValue(m.v[i][2], variables, strings)]))

\* Object.entries(zone) is a TypeError for a zone that is null; the validator
\* lets only zones that are mappings through
TemplateZone(zone, variables) ==
    IF IsMap(zone) THEN TemplateMap(zone, variables, TRUE)
    ELSE [threw |-> Nullish(zone), result |-> zone, warnings |-> <<>>]

TemplateZones(zones, variables) ==
    TemplateEntries(zones, Materialise([i \in 1..Len(zones.v) |->
                                           TemplateZone(zones.v[i][2], variables)]))

\* one section (zones, direct) of the output replaced by its processed form
Section(st, key, r) ==
    [threw |-> st.threw \/ r.threw, output |-> Put(st.output, key, r.result),
     warnings |-> st.warnings \o r.warnings]

TemplateGroups(output, g) ==
    [threw |-> g.threw, output |-> Put(output, "direct", g.direct), warnings |-> <<>>]

\* if (output.direct) expandRuleGroups(output.direct)
ProcessGroups(output) ==
    IF Truthy(Get(output, "direct"))
    THEN TemplateGroups(output, expandRuleGroups(Get(output, "direct")))
    ELSE [threw |-> FALSE, output |-> output, warnings |-> <<>>]

ProcessZones(st, variables) ==
    IF ~st.threw /\ IsMap(Get(st.output, "zones"))
    THEN Section(st, "zones", TemplateZones(Get(st.output, "zones"), variables))
    ELSE st

ProcessDirect(st, variables) ==
    IF ~st.threw /\ IsMap(Get(st.output, "direct"))
    THEN Section(st, "direct", TemplateMap(Get(st.output, "direct"), variables, FALSE))
    ELSE st

\* { config: output, variables, warnings: [...new Set(allWarnings)] }
ProcessEnd(st, variables) ==
    IF st.threw THEN Thrown
    ELSE Returned([config |-> st.output, variables |-> variables,
                   warnings |-> FirstSeen(st.warnings, st.warnings)])

ProcessWith(cfg, variables) ==
    ProcessEnd(ProcessDirect(ProcessZones(ProcessGroups(Del(cfg, "variables")), variables),
                             variables),
               variables)

\* a field of a mapping through JSON: one whose value is undefined is dropped
RECURSIVE JsonClone(_)
JsonField(p) == IF IsUndef(p[2]) THEN <<>> ELSE <<<<p[1], JsonClone(p[2])>>>>

\* JSON.parse(JSON.stringify(x)): NaN becomes null, and so does undefined in a list
JsonClone(x) ==
    IF x = NaN \/ IsUndef(x) THEN Null
    ELSE IF IsList(x) THEN L(Materialise([i \in 1..Len(x.v) |-> JsonClone(x.v[i])]))
    ELSE IF IsMap(x) THEN M(Concat([i \in 1..Len(x.v) |-> JsonField(x.v[i])]))
    ELSE x

\* processTemplate(config): the variables are read from config itself, the
\* rest works on the deep clone
processTemplate(cfg) == ProcessWith(JsonClone(cfg), resolveVariables(extractVariables(cfg)))

-----------------------------------------------------------------------------
(* parser.mjs: validation of the deserialized document *)

\* the key sets, in insertion order
VALID_ZONE_KEYS ==
    <<"target", "interfaces", "sources", "services", "ports", "protocols", "source_ports",
      "rich_rules", "forward", "masquerade", "forward_ports", "icmp_blocks",
      "icmp_block_inversion">>
VALID_PORT_KEYS == <<"port", "protocol", "loop">>
VALID_FORWARD_PORT_KEYS == <<"port", "protocol", "to_port", "to_addr", "loop">>
VALID_RICH_RULE_KEYS ==
    <<"family", "source", "source_invert", "destination", "destination_invert", "service",
      "port", "protocol", "icmp_block", "icmp_type", "masquerade", "forward_port",
      "source_port", "log", "audit", "action", "reject_type", "mark_set", "loop">>
VALID_DIRECT_RULE_KEYS == <<"ipv", "table", "chain", "priority", "args", "loop">>
VALID_DIRECT_CHAIN_KEYS == <<"ipv", "table", "chain">>
VALID_PASSTHROUGH_KEYS == <<"ipv", "args", "loop">>
VALID_RULE_GROUP_KEYS == <<"ipv", "table", "chain", "rules", "passthroughs">>
VALID_DIRECT_KEYS == <<"chains", "rules", "passthroughs", "rule_groups">>
VALID_TOP_KEYS == <<"variables", "zones", "direct">>
validGroupRuleKeys == <<"priority", "args", "loop">>

InSeq(x, xs) == \E i \in 1..Len(xs) : xs[i] = x

Min3(x, y, z) == IF x <= y /\ x <= z THEN x ELSE IF y <= z THEN y ELSE z

\* row i of the table of levenshtein from row i - 1, ca being a[i - 1];
\* row[k] is dp[i][k - 1], and the next column j is the length of row
RECURSIVE LevRow(_, _, _, _)
LevRow(ca, b, prev, row) ==
    IF Len(row) > Len(b) THEN row
    ELSE LevRow(ca, b, prev,
                Append(row, Min3(prev[Len(row) + 1] + 1, row[Len(row)] + 1,
                                 prev[Len(row)] + (IF ca = Char(b, Len(row)) THEN 0 ELSE 1))))

\* the rows from prev on; prev[1] is dp[i - 1][0], that is i - 1
RECURSIVE LevFrom(_, _, _)
LevFrom(a, b, prev) ==
    IF prev[1] >= Len(a) THEN prev[Len(b) + 1]
    ELSE LevFrom(a, b, LevRow(Char(a, prev[1] + 1), b, prev, <<prev[1] + 1>>))

levenshtein(a, b) == LevFrom(a, b, Materialise([j \in 1..(Len(b) + 1) |-> j - 1]))

\* the first key at the least distance, when that is below 3; "" is null
Closest(validKeys, dists, least) ==
    IF least >= 3 THEN ""
    ELSE validKeys[Least({i \in 1..Len(dists) : dists[i] = least})]

LeastOf(dists) == CHOOSE d \in {dists[i] : i \in 1..Len(dists)} :
                      \A i \in 1..Len(dists) : d <= dists[i]

Distances(input, validKeys) ==
    Materialise([i \in 1..Len(validKeys) |->
                    levenshtein(ToLowerCase(input), ToLowerCase(validKeys[i]))])

ClosestOf(validKeys, dists) == Closest(validKeys, dists, LeastOf(dists))

\* the closest key at whatever distance
suggestClosest(input, validKeys) ==
    validKeys[Least({i \in 1..Len(validKeys) :
                        Distances(input, validKeys)[i] = LeastOf(Distances(input, validKeys))})]

suggestKey(input, validKeys) == ClosestOf(validKeys, Distances(input, validKeys))

\* the warning for an unknown key (the long dash of the message is written -)
Suggested(text, suggestion) ==
    IF suggestion # "" THEN text \o " - did you mean '" \o suggestion \o "'?" ELSE text

\* warnUnknownKeys(context, obj, validKeys, warnings)
warnUnknownKeys(context, obj, validKeys) ==
    IF ~IsMap(obj) THEN <<>>
    ELSE Concat([i \in 1..Len(obj.v) |->
                    IF InSeq(obj.v[i][1], validKeys) THEN <<>>
                    ELSE <<Suggested(context \o ": unknown key '" \o obj.v[i][1] \o "'",
                                     suggestKey(obj.v[i][1], validKeys))>>])

validTargets == <<"default", "ACCEPT", "DROP", "REJECT">>

arrayFields ==
    <<"interfaces", "sources", "services", "ports", "protocols", "source_ports",
      "rich_rules", "forward_ports", "icmp_blocks">>

\* x.k !== undefined
Defined(x, k) == ~IsUndef(Get(x, k))

TargetWarnings(ctx, zone) ==
    IF Defined(zone, "target") /\ ~InSeq(ToStr(Get(zone, "target")), validTargets)
    THEN <<ctx \o ": target '" \o ToStr(Get(zone, "target")) \o "' is not one of "
           \o Join(validTargets, ", ")>>
    ELSE <<>>

ArrayFieldErrors(ctx, zone) ==
    Concat([i \in 1..Len(arrayFields) |->
               IF Defined(zone, arrayFields[i]) /\ ~IsList(Get(zone, arrayFields[i]))
               THEN <<ctx \o ": '" \o arrayFields[i] \o "' must be an array">>
               ELSE <<>>])

\* the entries of ports, source_ports and forward_ports that are mappings
PortEntryWarnings(ctx, xs, label, validKeys) ==
    Concat([i \in 1..Len(xs) |->
               IF IsMap(xs[i])
               THEN warnUnknownKeys(ctx \o " " \o label, xs[i], validKeys)
                    \o (IF ~Defined(xs[i], "port")
                        THEN <<ctx \o ": " \o label \o " entry missing 'port' field">>
                        ELSE <<>>)
               ELSE <<>>])

RichRuleWarnings(ctx, xs) ==
    Concat([i \in 1..Len(xs) |->
               IF IsMap(xs[i])
               THEN warnUnknownKeys(ctx \o " rich_rule", xs[i], VALID_RICH_RULE_KEYS)
                    \o (IF /\ ~Truthy(Get(xs[i], "action")) /\ ~Truthy(Get(xs[i], "log"))
                           /\ ~Truthy(Get(xs[i], "audit")) /\ ~Truthy(Get(xs[i], "masquerade"))
                        THEN <<ctx \o ": rich_rule has no action, log, audit, or masquerade">>
                        ELSE <<>>)
               ELSE <<>>])

ZoneWarnings(ctx, zone) ==
    TargetWarnings(ctx, zone)
    \o PortEntryWarnings(ctx, Elems(zone, "ports"), "port", VALID_PORT_KEYS)
    \o PortEntryWarnings(ctx, Elems(zone, "source_ports"), "source_port", VALID_PORT_KEYS)
    \o PortEntryWarnings(ctx, Elems(zone, "forward_ports"), "forward_port",
                         VALID_FORWARD_PORT_KEYS)
    \o RichRuleWarnings(ctx, Elems(zone, "rich_rules"))

\* validateZone(name, zone, errors, warnings): what it adds to each list
validateZone(name, zone) ==
    [errors |-> ArrayFieldErrors("Zone '" \o name \o "'", zone),
     warnings |-> ZoneWarnings("Zone '" \o name \o "'", zone)]

\* x !== null && typeof x === "object"
IsObject(x) == x.t \in {"list", "map"}

\* the missing-field warnings of an entry: those fields whose test fails
Missing(x, falsy, undefined) ==
    (\E k \in falsy : ~Truthy(Get(x, k))) \/ (\E k \in undefined : ~Defined(x, k))

EntryWarnings(xs, label, validKeys, falsy, undefined, text) ==
    Concat([i \in 1..Len(xs) |->
               IF IsObject(xs[i])
               THEN warnUnknownKeys(label, xs[i], validKeys)
                    \o (IF Missing(xs[i], falsy, undefined) THEN <<text>> ELSE <<>>)
               ELSE <<>>])

NotArray(direct, field) ==
    IF Defined(direct, field) /\ ~IsList(Get(direct, field))
    THEN <<"'direct." \o field \o "' must be an array">> ELSE <<>>

GroupRuleWarnings(xs) ==
    Concat([i \in 1..Len(xs) |->
               IF IsObject(xs[i])
               THEN warnUnknownKeys("Direct rule_group rule", xs[i], validGroupRuleKeys)
                    \o (IF ~Defined(xs[i], "priority")
                        THEN <<"Direct rule_group rule missing 'priority' field">> ELSE <<>>)
                    \o (IF ~Truthy(Get(xs[i], "args"))
                        THEN <<"Direct rule_group rule missing 'args' field">> ELSE <<>>)
               ELSE <<>>])

GroupFieldWarnings(group) ==
    Concat([i \in 1..3 |->
               IF ~Truthy(Get(group, VALID_RULE_GROUP_KEYS[i]))
               THEN <<"Direct rule_group missing '" \o VALID_RULE_GROUP_KEYS[i] \o "' field">>
               ELSE <<>>])

RuleGroupWarnings(xs) ==
    Concat([i \in 1..Len(xs) |->
               IF IsObject(xs[i])
               THEN warnUnknownKeys("Direct rule_group", xs[i], VALID_RULE_GROUP_KEYS)
                    \o GroupFieldWarnings(xs[i])
                    \o GroupRuleWarnings(Elems(xs[i], "rules"))
               ELSE <<>>])

\* validateDirect(direct, errors, warnings): what it adds to each list
validateDirect(direct) ==
    [errors |-> NotArray(direct, "chains") \o NotArray(direct, "rules")
                \o NotArray(direct, "passthroughs") \o NotArray(direct, "rule_groups"),
     warnings |->
         EntryWarnings(Elems(direct, "chains"), "Direct chain", VALID_DIRECT_CHAIN_KEYS,
                       {"ipv", "table", "chain"}, {},
                       "Direct chain entry missing required fields (ipv, table, chain)")
         \o EntryWarnings(Elems(direct, "rules"), "Direct rule", VALID_DIRECT_RULE_KEYS,
                          {"ipv", "table", "chain", "args"}, {"priority"},
                          "Direct rule entry missing required fields "
                          \o "(ipv, table, chain, priority, args)")
         \o EntryWarnings(Elems(direct, "passthroughs"), "Direct passthrough",
                          VALID_PASSTHROUGH_KEYS, {"ipv", "args"}, {},
                          "Direct passthrough entry missing required fields (ipv, args)")
         \o RuleGroupWarnings(Elems(direct, "rule_groups"))]

TopUnknown(key, suggestion) ==
    IF suggestion # ""
    THEN "Unknown top-level key '" \o key \o "' - did you mean '" \o suggestion \o "'?"
    ELSE "Unknown top-level key: '" \o key \o "'"

TopWarnings(raw) ==
    Concat([i \in 1..Len(raw.v) |->
               IF InSeq(raw.v[i][1], VALID_TOP_KEYS) THEN <<>>
               ELSE <<TopUnknown(raw.v[i][1], suggestKey(raw.v[i][1], VALID_TOP_KEYS))>>])

\* typeof x !== "object" || Array.isArray(x): null passes this test
NotObject(x) == ~TypeofObject(x) \/ IsList(x)

VariablesErrors(raw) ==
    IF Defined(raw, "variables") /\ NotObject(Get(raw, "variables"))
    THEN <<"'variables' must be a mapping">> ELSE <<>>

Checks(errors, warnings) == [threw |-> FALSE, errors |-> errors, warnings |-> warnings]

ZoneChecked(ctx, zone, v) ==
    Checks(v.errors, warnUnknownKeys(ctx, zone, VALID_ZONE_KEYS) \o v.warnings)

\* one turn of the loop over Object.entries(raw.zones)
ZoneCheck(zoneName, zone) ==
    IF ~IsMap(zone) THEN Checks(<<"Zone '" \o zoneName \o "' must be a mapping">>, <<>>)
    ELSE ZoneChecked("Zone '" \o zoneName \o "'", zone, validateZone(zoneName, zone))

AllChecks(rs) ==
    Checks(Concat([i \in 1..Len(rs) |-> rs[i].errors]),
           Concat([i \in 1..Len(rs) |-> rs[i].warnings]))

\* the zones block; Object.entries(null) is a TypeError
ZonesCheck(zones) ==
    IF IsUndef(zones) THEN Checks(<<>>, <<>>)
    ELSE IF NotObject(zones)
    THEN Checks(<<"'zones' must be a mapping of zone names to zone configs">>, <<>>)
    ELSE IF IsNull(zones) THEN [threw |-> TRUE, errors |-> <<>>, warnings |-> <<>>]
    ELSE AllChecks(Materialise([i \in 1..Len(zones.v) |->
                                   ZoneCheck(zones.v[i][1], zones.v[i][2])]))

DirectChecked(direct, v) ==
    Checks(v.errors, warnUnknownKeys("Direct", direct, VALID_DIRECT_KEYS) \o v.warnings)

\* the direct block
DirectCheck(direct) ==
    IF IsUndef(direct) THEN Checks(<<>>, <<>>)
    ELSE IF ~IsMap(direct) THEN Checks(<<"'direct' must be a mapping">>, <<>>)
    ELSE DirectChecked(direct, validateDirect(direct))

Failed(errors, warnings) ==
    Returned([config |-> Null, variables |-> M(<<>>), errors |-> errors,
              warnings |-> warnings])

Expanded(t, warnings) ==
    IF t.threw THEN Thrown
    ELSE Returned([config |-> t.value.config, variables |-> t.value.variables,
                   errors |-> <<>>, warnings |-> warnings \o t.value.warnings])

\* the result r with errors for its errors
WithErrors(r, errors) ==
    IF r.threw THEN r ELSE Returned([r.value EXCEPT !.errors = errors])

\* a parseConfig that hands out the expanded configuration whatever the errors
ValidatedAlways(raw, errors, warnings) ==
    WithErrors(Expanded(processTemplate(raw), warnings), errors)

\* if (errors.length > 0) return { config: null, ... }; processTemplate(raw)
Validated(raw, errors, warnings) ==
    IF Len(errors) > 0 THEN Failed(errors, warnings)
    ELSE Expanded(processTemplate(raw), warnings)

Checked(raw, top, variables, z, d) ==
    IF z.threw THEN Thrown
    ELSE Validated(raw, variables \o z.errors \o d.errors, top \o z.warnings \o d.warnings)

\* parseConfig from the deserialized document raw on
parseConfig(raw) ==
    IF ~IsMap(raw) THEN Failed(<<"Configuration must be a YAML mapping (object)">>, <<>>)
    ELSE Checked(raw, TopWarnings(raw), VariablesErrors(raw),
                 ZonesCheck(Get(raw, "zones")), DirectCheck(Get(raw, "direct")))

-----------------------------------------------------------------------------
(* app.mjs: handleYamlChange *)

ErrorsTab == "# Errors in configuration - fix YAML to generate commands"

WarningHeader(warnings) ==
    IF Len(warnings) > 0
    THEN Join([i \in 1..Len(warnings) |-> "# WARNING: " \o warnings[i]], "\n") \o "\n\n"
    ELSE ""

Tabs(header, applyLines, removeLines) ==
    IF applyLines.threw \/ removeLines.threw THEN Thrown
    ELSE Returned([apply |-> header \o Join(applyLines.value, "\n"),
                   remove |-> header \o Join(removeLines.value, "\n")])

\* what handleYamlChange puts into the tabs for the result p of parseConfig
handleYamlChange(p) ==
    IF p.threw THEN Thrown
    ELSE IF Len(p.value.errors) > 0 THEN Returned([apply |-> ErrorsTab, remove |-> ErrorsTab])
    ELSE Tabs(WarningHeader(p.value.warnings), generateApply(p.value.config, FALSE),
              generateRemove(p.value.config, FALSE))

-----------------------------------------------------------------------------
(* The documents handed to parseConfig, and the editor that shows the result *)

NonMappings == {Null, S("public"), N(1), L(<<S("public")>>)}
NonLists == {Null, S("ssh"), N(22), M(<<<<"port", N(22)>>>>)}

DocVariables ==
    M(<<<<"iface", S("eth0")>>, <<"web", L(<<N(80), N(443)>>)>>,
        <<"net", L(<<S("10.0.0.0/8")>>)>>, <<"none", L(<<>>)>>,
        <<"fam", L(<<S("ipv4"), S("ipv6")>>)>>, <<"tgt", S("DROP")>>,
        <<"mgmt", N(8443)>>, <<"admin", S("{{ iface }}.10")>>>>)

GoodZone == M(<<<<"target", S("DROP")>>, <<"services", L(<<S("ssh")>>)>>>>)

ZonesDoc(zones) == M(<<<<"variables", DocVariables>>, <<"zones", zones>>>>)
ZoneDoc(zone) == ZonesDoc(M(<<<<"public", zone>>>>))
DirectDoc(direct) == M(<<<<"variables", DocVariables>>, <<"direct", direct>>>>)
FieldDoc(field, xs) == ZoneDoc(M(<<<<field, L(xs)>>>>))
DirectFieldDoc(field, xs) == DirectDoc(M(<<<<field, L(xs)>>>>))

\* documents with one structural fault
TopDocs == NonMappings
VariablesDocs == {M(<<<<"variables", v>>, <<"zones", M(<<<<"public", GoodZone>>>>)>>>>) :
                     v \in NonMappings}
ZonesDocs == {M(<<<<"zones", v>>>>) : v \in NonMappings}
ZoneValueDocs == {ZonesDoc(M(<<<<"public", GoodZone>>, <<"dmz", v>>>>)) : v \in NonMappings}
ZoneFieldDocs == {ZoneDoc(Put(GoodZone, arrayFields[i], v)) :
                     i \in 1..Len(arrayFields), v \in NonLists}
DirectDocs == {M(<<<<"direct", v>>>>) : v \in NonMappings}
DirectFieldDocs == {DirectDoc(M(<<<<f, v>>>>)) :
                       f \in {"chains", "rules", "passthroughs", "rule_groups"}, v \in NonLists}
FaultyDocs ==
    TopDocs \cup VariablesDocs \cup ZonesDocs \cup ZoneValueDocs \cup ZoneFieldDocs
    \cup DirectDocs \cup DirectFieldDocs

\* documents with what the validator only warns about
UnknownKeyDocs ==
    {M(<<<<"zone", M(<<<<"public", GoodZone>>>>)>>>>),
     ZoneDoc(Put(GoodZone, "port", L(<<S("53/udp")>>))),
     ZoneDoc(Put(GoodZone, "comment", S("the outside"))),
     FieldDoc("ports", <<M(<<<<"port", N(53)>>, <<"proto", S("udp")>>>>)>>),
     FieldDoc("rich_rules", <<Put(RuleSsh, "sevice", S("ssh"))>>),
     DirectDoc(M(<<<<"rulez", L(<<>>)>>>>))}
BadTargetDocs == {ZoneDoc(Put(GoodZone, "target", t)) : t \in {S("ALLOW"), S("accept"), N(1)}}
BareRichRuleDocs ==
    {FieldDoc("rich_rules", <<r>>) :
        r \in {M(<<<<"family", S("ipv4")>>, <<"service", S("ssh")>>>>),
               M(<<<<"source", S("10.0.0.1")>>, <<"action", S("")>>>>)}}
MissingFieldDocs ==
    {DirectFieldDoc("chains", <<M(<<<<"ipv", S("ipv4")>>, <<"table", S("filter")>>>>)>>),
     DirectFieldDoc("rules", <<Del(DirectRule("ipv4", 0, "-j DROP"), "priority")>>),
     DirectFieldDoc("rules", <<Del(DirectRule("ipv4", 0, "-j DROP"), "args")>>),
     DirectFieldDoc("passthroughs", <<M(<<<<"ipv", S("ipv4")>>>>)>>),
     DirectFieldDoc("rule_groups",
                    <<M(<<<<"ipv", S("ipv4")>>, <<"chain", S("DOCKER-USER")>>,
                          <<"rules", L(<<M(<<<<"priority", N(0)>>>>)>>)>>>>)>>)}
WarnedDocs == UnknownKeyDocs \cup BadTargetDocs \cup BareRichRuleDocs \cup MissingFieldDocs

\* list elements carrying a loop directive
LoopPort(ref) ==
    M(<<<<"port", S("{{ item }}")>>, <<"protocol", S("tcp")>>, <<"loop", ref>>>>)
LoopForwardPort(ref) ==
    M(<<<<"port", S("{{ item }}")>>, <<"protocol", S("tcp")>>, <<"to_port", S("1{{item}}")>>,
        <<"loop", ref>>>>)
LoopSourceRule(ref) ==
    M(<<<<"family", S("ipv4")>>, <<"source", S("{{ item }}")>>, <<"action", S("accept")>>,
        <<"loop", ref>>>>)
LoopLogRule(ref) ==
    M(<<<<"service", S("ssh")>>,
        <<"log", M(<<<<"prefix", S("from {{ item }}")>>, <<"level", S("info")>>>>)>>,
        <<"action", S("accept")>>, <<"loop", ref>>>>)
LoopForwardRule(ref) ==
    M(<<<<"family", S("ipv4")>>,
        <<"forward_port", M(<<<<"port", S("{{ item }}")>>, <<"protocol", S("tcp")>>,
                              <<"to_port", S("8080")>>>>)>>,
        <<"loop", ref>>>>)
LoopChain(ref) ==
    M(<<<<"ipv", S("{{ item }}")>>, <<"table", S("filter")>>, <<"chain", S("DOCKER-USER")>>,
        <<"loop", ref>>>>)
LoopDirectRule(ref) ==
    Put(DirectRule("ipv4", 0, "-s {{ item }} -j ACCEPT -m comment --comment {{ item }}"),
        "loop", ref)
LoopPassthrough(ref) ==
    M(<<<<"ipv", S("ipv4")>>, <<"args", S("-I INPUT -s {{ item }} -j DROP")>>, <<"loop", ref>>>>)

PlainPort == M(<<<<"port", N(22)>>, <<"protocol", S("tcp")>>>>)

\* loop directives that name a list variable
ListRefs == {S("{{ web }}"), S("{{net}}"), S("{{ none }}"), S("{{ fam }}")}
\* loop directives that name none: no variable, a scalar variable, no braces,
\* an empty directive
OtherRefs == {S("{{ nope }}"), S("{{ iface }}"), S("web"), S(""), Null, N(0)}
\* loop directives that are not text
NonTextRefs == {N(5), B(TRUE), L(<<S("{{ web }}")>>)}

LoopFieldDocs(refs) ==
    {FieldDoc("ports", <<PlainPort, LoopPort(r), S("53/udp")>>) : r \in refs}
    \cup {FieldDoc("forward_ports", <<LoopForwardPort(r)>>) : r \in refs}
    \cup {FieldDoc("rich_rules", <<LoopSourceRule(r), RuleSsh>>) : r \in refs}
    \cup {DirectFieldDoc("chains", <<ChainDocker, LoopChain(r)>>) : r \in refs}
    \cup {DirectFieldDoc("rules", <<LoopDirectRule(r)>>) : r \in refs}
    \cup {DirectFieldDoc("passthroughs", <<LoopPassthrough(r)>>) : r \in refs}
NestedLoopDocs(refs) ==
    {FieldDoc("rich_rules", <<LoopLogRule(r)>>) : r \in refs}
    \cup {FieldDoc("rich_rules", <<RuleSsh, LoopForwardRule(r)>>) : r \in refs}

FlatLoopDocs ==
    LoopFieldDocs(ListRefs)
    \cup {FieldDoc("ports", <<LoopPort(S("{{ web }}")), LoopPort(S("{{ fam }}"))>>)}
LoopDocs == FlatLoopDocs \cup NestedLoopDocs(ListRefs)
OtherLoopDocs == LoopFieldDocs(OtherRefs) \cup NestedLoopDocs({S("{{ nope }}")})
NonTextLoopDocs == LoopFieldDocs(NonTextRefs)

\* documents with scalar references and rule groups
GroupOf(ipv, rules, passthroughs) ==
    M(<<<<"ipv", ipv>>, <<"table", S("filter")>>, <<"chain", S("DOCKER-USER")>>,
        <<"rules", L(rules)>>, <<"passthroughs", L(passthroughs)>>>>)
GroupRuleOf(args) == M(<<<<"priority", N(0)>>, <<"args", S(args)>>>>)
ScalarDocs ==
    {ZoneDoc(M(<<<<"target", S("{{ tgt }}")>>, <<"interfaces", L(<<S("{{ iface }}")>>)>>,
                 <<"sources", L(<<S("{{ net }}"), S("{{ lan }}")>>)>>,
                 <<"forward", B(TRUE)>>>>)),
     M(<<<<"zones", M(<<<<"public", GoodZone>>, <<"dmz", M(<<>>)>>>>)>>>>),
     M(<<>>),
     M(<<<<"variables", M(<<<<"a", S("{{ b }}")>>, <<"b", S("{{ a }}")>>,
                            <<"level", NaN>>>>)>>,
         <<"zones", M(<<<<"public", M(<<<<"sources", L(<<S("{{ a }}")>>)>>,
                                         <<"target", NaN>>>>)>>>>)>>>>)}
GroupDocs ==
    {DirectFieldDoc("rule_groups", <<g>>) :
        g \in {GroupOf(S("ipv4"), <<GroupRuleOf("-d {{ ipv_any }} -j DROP")>>, <<>>),
               GroupOf(L(<<S("ipv4"), S("ipv6")>>),
                       <<Put(GroupRuleOf("-s {{ item }} -d {{ipv_any}} -j ACCEPT"),
                             "loop", S("{{ net }}"))>>,
                       <<M(<<<<"args", S("-I INPUT -d {{ ipv_any }}")>>>>)>>),
               S("DOCKER-USER")}}

\* documents with a null where an element is read
NullElementDocs ==
    {FieldDoc(arrayFields[i], <<Null>>) : i \in 1..Len(arrayFields)}
    \cup {DirectFieldDoc(f, <<Null>>) : f \in {"chains", "rules", "passthroughs", "rule_groups"}}
    \cup {DirectFieldDoc("rule_groups", <<GroupOf(S("ipv4"), <<Null>>, <<>>)>>)}

\* documents whose lists hold a loop that names no list next to loops that do
MixedLoopDocs ==
    {ZoneDoc(M(<<<<"ports", L(<<LoopPort(r), LoopPort(S("{{ web }}")), PlainPort>>)>>,
                 <<"rich_rules", L(<<LoopSourceRule(S("{{ net }}"))>>)>>>>)) :
        r \in OtherRefs \cup NonTextRefs}

\* documents with references to scalar variables, to absent variables and to
\* a list variable, in the fields of the schema
ReferenceZone ==
    M(<<<<"target", S("{{ tgt }}")>>,
        <<"interfaces", L(<<S("{{ iface }}"), S("{{iface}}.{{ mgmt }}"), S("{{ admin }}")>>)>>,
        <<"sources", L(<<S("{{ lan }}"), S("{{ web }}")>>)>>,
        <<"ports", L(<<M(<<<<"port", S("{{ mgmt }}")>>, <<"protocol", S("tcp")>>>>)>>)>>,
        <<"rich_rules",
          L(<<M(<<<<"source", S("{{ lan }}")>>,
                  <<"log", M(<<<<"prefix", S("in {{ iface }} {{ nope }}")>>>>)>>,
                  <<"action", S("accept")>>>>)>>)>>,
        <<"forward", B(TRUE)>>>>)
ReferenceDirect ==
    M(<<<<"rules", L(<<DirectRule("ipv4", 0, "-i {{ iface }} -s {{ lan }} -j {{ tgt }}")>>)>>,
        <<"passthroughs",
          L(<<M(<<<<"ipv", S("ipv4")>>, <<"args", S("-I INPUT -p tcp --dport {{ mgmt }}")>>>>)>>)>>>>)
SchemaReferenceDocs ==
    {ZoneDoc(ReferenceZone), DirectDoc(ReferenceDirect),
     M(<<<<"variables", DocVariables>>, <<"zones", M(<<<<"public", ReferenceZone>>>>)>>,
         <<"direct", ReferenceDirect>>>>)}
\* the same under keys outside the schema
OtherReferenceDocs ==
    {ZoneDoc(Put(ReferenceZone, "meta", M(<<<<"owner", S("{{ iface }}")>>>>))),
     ZoneDoc(Put(GoodZone, "meta", M(<<<<"owner", S("{{ nope }}")>>>>))),
     DirectDoc(Put(ReferenceDirect, "note", S("for {{ iface }}")))}
ReferenceDocs == SchemaReferenceDocs \cup OtherReferenceDocs

\* documents with rule groups: next to chains and rules of direct, with a
\* scalar ipv, with two groups, with no ipv at all, without rules, and with a
\* user variable named like the wildcard address
WildcardGroup(ipv) ==
    GroupOf(ipv, <<GroupRuleOf("-d {{ ipv_any }} -j DROP"),
                   Put(GroupRuleOf("-s {{ipv_any}} -d {{ ipv_any }} -j ACCEPT"), "priority", N(5))>>,
            <<M(<<<<"args", S("-I INPUT -d {{ ipv_any }}")>>>>)>>)
BothFamilies == L(<<S("ipv4"), S("ipv6")>>)
RuleGroupDocs ==
    {DirectDoc(M(<<<<"chains", L(<<ChainDocker>>)>>,
                   <<"rules", L(<<DirectRule("ipv4", 5, "-j RETURN")>>)>>,
                   <<"rule_groups", L(<<WildcardGroup(BothFamilies)>>)>>>>)),
     DirectFieldDoc("rule_groups", <<WildcardGroup(S("ipv6"))>>),
     DirectFieldDoc("rule_groups", <<WildcardGroup(S("ipv4")), WildcardGroup(BothFamilies)>>),
     DirectFieldDoc("rule_groups", <<WildcardGroup(L(<<>>))>>),
     DirectFieldDoc("rule_groups",
                    <<M(<<<<"ipv", BothFamilies>>, <<"table", S("nat")>>,
                          <<"chain", S("PREROUTING")>>>>)>>),
     M(<<<<"variables", M(<<<<"ipv_any", S("192.0.2.1")>>>>)>>,
         <<"direct", M(<<<<"rule_groups", L(<<WildcardGroup(BothFamilies)>>)>>>>)>>>>)}

\* variables that refer to each other in a chain a -> b -> c, in the
\* order of declaration and in the opposite order
ChainedVariables ==
    <<<<"a", S("{{ b }}/24")>>, <<"b", S("{{c}}")>>, <<"c", S("10.0.0.1")>>,
      <<"hosts", L(<<S("{{ b }}"), S("{{ item }}:{{ n }}"), N(5), S("{{ hosts }} {{ nope }}")>>)>>,
      <<"n", N(5)>>, <<"port", S("{{ n }}{{ n }}")>>>>

Reversed(xs) == Materialise([i \in 1..Len(xs) |-> xs[Len(xs) + 1 - i]])

ChainedZones ==
    M(<<<<"public", M(<<<<"sources", L(<<S("{{ a }}")>>)>>,
                        <<"ports", L(<<M(<<<<"port", S("{{ port }}")>>,
                                           <<"protocol", S("tcp")>>>>)>>)>>>>)>>>>)

ChainedDocs ==
    {M(<<<<"variables", M(ChainedVariables)>>, <<"zones", ChainedZones>>>>),
     M(<<<<"variables", M(Reversed(ChainedVariables))>>, <<"zones", ChainedZones>>>>)}

\* keys of a port that the schema does not know, near and far from its keys
Misspelt == {"pooo", "PORT", "Protocl", "xyzzy", "lop", "to_port", "prt", "poo", "loo", "portocol"}
MisspeltDocs ==
    {FieldDoc("ports", <<M(<<<<"port", N(53)>>, <<k, S("udp")>>>>)>>) : k \in Misspelt}

Docs ==
    MisspeltDocs \cup ChainedDocs \cup RuleGroupDocs \cup ReferenceDocs \cup FaultyDocs \cup WarnedDocs \cup LoopDocs \cup OtherLoopDocs \cup NonTextLoopDocs
    \cup ScalarDocs \cup GroupDocs \cup NullElementDocs \cup MixedLoopDocs

InitDoc ==
    /\ pc = "doc"
    /\ doc \in Docs
    /\ parsed = Idle
    /\ tabs = Idle
    /\ again = Idle
    /\ script = ""
    /\ existing = Undef
    /\ incoming = Undef
    /\ merged = Idle
    /\ config = Undef
    /\ runtime = FALSE
    /\ applyOut = Idle
    /\ removeOut = Idle
    /\ fw = {}
    /\ fragment = Idle
    /\ rule = Undef
    /\ ruleStr = ""
    /\ ruleBack = Undef
    /\ ruleAgain = ""

\* parseConfig called on its own
ParseConfig ==
    /\ pc = "doc"
    /\ parsed' = parseConfig(doc)
    /\ pc' = "docParsed"
    /\ UNCHANGED <<doc, tabs, again, genVars, richVars, mergeVars>>

\* the editor's change handler: parseConfig, then the two tabs
HandleYamlChange ==
    /\ pc = "doc"
    /\ parsed' = parseConfig(doc)
    /\ tabs' = handleYamlChange(parsed')
    /\ pc' = "docShown"
    /\ UNCHANGED <<doc, again, genVars, richVars, mergeVars>>

\* processTemplate on the config that processTemplate returned
Reprocess ==
    /\ pc = "docParsed"
    /\ ~parsed.threw
    /\ IsMap(parsed.value.config)
    /\ again' = processTemplate(parsed.value.config)
    /\ pc' = "docAgain"
    /\ UNCHANGED <<doc, parsed, tabs, genVars, richVars, mergeVars>>

NextDoc == ParseConfig \/ HandleYamlChange \/ Reprocess

SpecDoc == InitDoc /\ [][NextDoc]_vars

HasParsed == pc \in {"docParsed", "docShown"}
HasReturned == HasParsed /\ ~parsed.threw

-----------------------------------------------------------------------------
(* Validation and expansion of a document *)

\* a section that is present but not a mapping
NotMapping(d, key) == Has(d, key) /\ ~IsMap(Get(d, key))

\* a key of m among fields that is present but not a list
NotListIn(m, fields) == \E f \in fields : Has(m, f) /\ ~IsList(Get(m, f))

ZoneValues(d) ==
    IF IsMap(Get(d, "zones"))
    THEN {Get(d, "zones").v[i][2] : i \in 1..Len(Get(d, "zones").v)} ELSE {}

\* the faults that are fatal
Malformed(d) ==
    \/ ~IsMap(d)
    \/ NotMapping(d, "variables")
    \/ NotMapping(d, "zones")
    \/ \E z \in ZoneValues(d) : ~IsMap(z)
    \/ \E z \in ZoneValues(d) :
          NotListIn(z, {"interfaces", "sources", "services", "ports", "protocols",
                        "source_ports", "rich_rules", "forward_ports", "icmp_blocks"})
    \/ NotListIn(Get(d, "direct"), {"chains", "rules", "passthroughs", "rule_groups"})

\* C6: for a document with a fatal fault (top level, variables or zones not a
\* mapping - null, scalar or list -, a zone not a mapping, a listed zone field
\* or a list of direct not a list), parseConfig returns at least one error,
\* config = null and no variables of the template engine
C6_FatalOnMalformed ==
    (HasParsed /\ Malformed(doc)) =>
        /\ ~parsed.threw
        /\ Len(parsed.value.errors) > 0
        /\ parsed.value.config = Null
        /\ parsed.value.variables = M(<<>>)

\* some warning of the result holds text
Warns(text) ==
    \E i \in 1..Len(parsed.value.warnings) : Contains(parsed.value.warnings[i], text)

\* what the validator says of each kind of warned document
WarnedText(d) ==
    IF d \in UnknownKeyDocs THEN "nknown"
    ELSE IF d \in BadTargetDocs THEN "is not one of default, ACCEPT, DROP, REJECT"
    ELSE IF d \in BareRichRuleDocs THEN "rich_rule has no action, log, audit, or masquerade"
    ELSE "missing"

\* C7: config is null exactly when errors is non-empty; without errors the
\* config is the expanded mapping, also under warnings: unknown keys, a target
\* outside default/ACCEPT/DROP/REJECT, a rich rule without action, log, audit
\* and masquerade, and missing fields of direct entries only warn; the editor
\* shows commands only when errors is empty
C7_ConfigIffNoErrors ==
    /\ HasReturned =>
          /\ (parsed.value.config = Null) <=> (Len(parsed.value.errors) > 0)
          /\ Len(parsed.value.errors) = 0 =>
                IsMap(parsed.value.config) /\ ~Has(parsed.value.config, "variables")
    /\ (HasParsed /\ doc \in WarnedDocs) =>
          /\ ~parsed.threw
          /\ Len(parsed.value.errors) = 0
          /\ Warns(WarnedText(doc))
          /\ IsMap(parsed.value.config)
    /\ (pc = "docShown" /\ ~parsed.threw /\ Len(parsed.value.errors) > 0) =>
          tabs = Returned([apply |-> ErrorsTab, remove |-> ErrorsTab])
    /\ (pc = "docShown" /\ doc \in WarnedDocs) =>
          /\ ~tabs.threw
          /\ Contains(tabs.value.apply, "# WARNING: ")
          /\ Contains(tabs.value.apply, "firewall-cmd --reload")
          /\ Contains(tabs.value.remove, "firewall-cmd --reload")

\* a zone with a target that is not a firewalld target is shown with a warning
\* and its commands
C7_Witness ==
    /\ pc = "docShown"
    /\ doc \in BadTargetDocs
    /\ ~parsed.threw
    /\ Len(parsed.value.errors) = 0
    /\ Len(parsed.value.warnings) > 0
    /\ IsMap(parsed.value.config)
    /\ ~tabs.threw
    /\ Contains(tabs.value.apply, "--set-target=ALLOW")

\* C8: no public operation raises an exception: parseConfig returns for every
\* document, and for a document without errors the commands of the expanded
\* config are generated
C8_NoException ==
    /\ HasParsed => ~parsed.threw
    /\ pc = "docShown" => ~tabs.threw

\* no element of a list of m under one of the keys has a loop key
NoLoopIn(m, keys) ==
    \A k \in keys : \A i \in 1..Len(Elems(m, k)) : ~Has(Elems(m, k)[i], "loop")

\* C9: the config of a validated document retains no loop key: in no element
\* of a list of a zone, and in no element of chains, rules and passthroughs
\* of direct
C9_NoLoopKey ==
    (HasReturned /\ Len(parsed.value.errors) = 0) =>
        /\ \A z \in ZoneValues(parsed.value.config) : NoLoopIn(z, KeySet(z))
        /\ NoLoopIn(Get(parsed.value.config, "direct"), {"chains", "rules", "passthroughs"})

\* every occurrence of the item reference in every string of x, at any depth,
\* replaced by text
RECURSIVE DeepItem(_, _)
DeepItem(x, text) ==
    IF IsStr(x) THEN S(ReplaceNamed(x.v, "item", text))
    ELSE IF IsList(x) THEN L(Materialise([i \in 1..Len(x.v) |-> DeepItem(x.v[i], text)]))
    ELSE IF IsMap(x)
    THEN M(Materialise([i \in 1..Len(x.v) |-> <<x.v[i][1], DeepItem(x.v[i][2], text)>>]))
    ELSE x

\* the list variables that the loop directive of x names
LoopVariables(x, variables) ==
    {k \in KeySet(variables) :
        /\ IsList(Get(variables, k))
        /\ Get(x, "loop") \in {S("{{ " \o k \o " }}"), S("{{" \o k \o "}}")}}

CopiesOf(x, values) ==
    Materialise([j \in 1..Len(values) |-> DeepItem(Del(x, "loop"), ToStr(values[j]))])

\* the elements that stand for x in the expanded list
ExpectedFor(x, variables, names) ==
    IF names = {} THEN <<x>>
    ELSE CopiesOf(x, Get(variables, CHOOSE k \in names : TRUE).v)

ExpectedList(xs, variables) ==
    Concat([i \in 1..Len(xs) |-> ExpectedFor(xs[i], variables, LoopVariables(xs[i], variables))])

\* a zone, or direct, with each of its lists expanded
ExpectedSection(m, variables) ==
    M(Materialise([i \in 1..Len(m.v) |->
          IF IsList(m.v[i][2])
          THEN <<m.v[i][1], L(ExpectedList(m.v[i][2].v, variables))>>
          ELSE m.v[i]]))

ExpectedZones(zones, variables) ==
    M(Materialise([i \in 1..Len(zones.v) |->
          <<zones.v[i][1], ExpectedSection(zones.v[i][2], variables)>>]))

ExpectedField(p, variables) ==
    IF p[1] = "variables" THEN <<>>
    ELSE IF p[1] = "zones" THEN <<<<p[1], ExpectedZones(p[2], variables)>>>>
    ELSE IF p[1] = "direct" THEN <<<<p[1], ExpectedSection(p[2], variables)>>>>
    ELSE <<p>>

ExpectedConfig(d) ==
    M(Concat([i \in 1..Len(d.v) |-> ExpectedField(d.v[i], Get(d, "variables"))]))

\* C10: an element carrying a loop over a list variable of n values is
\* replaced, where it stands, by n copies in the order of the values, each
\* without the loop key and with the item reference replaced by the value in
\* every string of the copy, top-level or nested; the other elements keep
\* their order and content
C10_LoopExpansion ==
    (HasParsed /\ doc \in LoopDocs) =>
        /\ ~parsed.threw
        /\ parsed.value.config = ExpectedConfig(doc)

\* x without the loop keys of its mappings, at any depth
RECURSIVE WithoutLoop(_)
WithoutLoop(x) ==
    IF IsList(x) THEN L(Materialise([i \in 1..Len(x.v) |-> WithoutLoop(x.v[i])]))
    ELSE IF IsMap(x)
    THEN M(Materialise([i \in 1..Len(Del(x, "loop").v) |->
              <<Del(x, "loop").v[i][1], WithoutLoop(Del(x, "loop").v[i][2])>>]))
    ELSE x

\* the documents with a loop that is no reference to a list variable
UnloopedDocs == OtherLoopDocs \cup NonTextLoopDocs \cup MixedLoopDocs

\* C11: an element whose loop is no reference, or names a variable that is
\* absent or not a list, is emitted once and unexpanded, with a warning; the
\* other elements are expanded all the same, and a config is returned
C11_UnloopedKept ==
    (HasParsed /\ doc \in UnloopedDocs) =>
        /\ ~parsed.threw
        /\ Len(parsed.value.errors) = 0
        /\ WithoutLoop(parsed.value.config) = WithoutLoop(ExpectedConfig(doc))
        /\ Warns("oop reference") \/ Warns("oop variable")

\* s with the references to the scalar variables from the i-th on replaced
RECURSIVE ScalarsIn(_, _, _)
ScalarsIn(s, variables, i) ==
    IF i > Len(variables.v) THEN s
    ELSE ScalarsIn(IF IsList(variables.v[i][2]) THEN s
                   ELSE ReplaceNamed(s, variables.v[i][1], ToStr(variables.v[i][2])),
                   variables, i + 1)

\* every string of x, at any depth, with its references to scalar variables
\* replaced
RECURSIVE DeepScalars(_, _)
DeepScalars(x, variables) ==
    IF IsStr(x) THEN S(ScalarsIn(x.v, variables, 1))
    ELSE IF IsList(x)
    THEN L(Materialise([i \in 1..Len(x.v) |-> DeepScalars(x.v[i], variables)]))
    ELSE IF IsMap(x)
    THEN M(Materialise([i \in 1..Len(x.v) |->
              <<x.v[i][1], DeepScalars(x.v[i][2], variables)>>]))
    ELSE x

\* some string of x, at any depth, holds a reference to name
RECURSIVE Mentions(_, _)
Mentions(x, name) ==
    IF IsStr(x) THEN FirstNamed(x.v, name, 1) > 0
    ELSE IF IsList(x) THEN \E i \in 1..Len(x.v) : Mentions(x.v[i], name)
    ELSE IF IsMap(x) THEN \E i \in 1..Len(x.v) : Mentions(x.v[i][2], name)
    ELSE FALSE

AbsentNames == {"lan", "nope"}

\* the references to absent variables stay and are warned about
AbsentKept(x, y) ==
    \A n \in AbsentNames : Mentions(x, n) => (Mentions(y, n) /\ Warns(n))

\* a field of a zone with what the schema walks replaced: strings and lists
SchemaField(p, variables, strings) ==
    IF IsList(p[2]) \/ (strings /\ IsStr(p[2]))
    THEN <<p[1], DeepScalars(p[2], variables)>> ELSE p

SchemaSection(m, variables, strings) ==
    IF ~IsMap(m) THEN m
    ELSE M(Materialise([i \in 1..Len(m.v) |-> SchemaField(m.v[i], variables, strings)]))

SchemaZones(zones, variables) ==
    IF ~IsMap(zones) THEN zones
    ELSE M(Materialise([i \in 1..Len(zones.v) |->
              <<zones.v[i][1], SchemaSection(zones.v[i][2], variables, TRUE)>>]))

\* the values that the schema walks: the strings and lists of the zones and
\* the lists of direct
SchemaValues(m, strings) ==
    IF ~IsMap(m) THEN <<>>
    ELSE Concat([i \in 1..Len(m.v) |->
                    IF IsList(m.v[i][2]) \/ (strings /\ IsStr(m.v[i][2]))
                    THEN <<m.v[i][2]>> ELSE <<>>])

SchemaStrings(zones, direct) ==
    L((IF ~IsMap(zones) THEN <<>>
       ELSE Concat([i \in 1..Len(zones.v) |-> SchemaValues(zones.v[i][2], TRUE)]))
      \o SchemaValues(direct, FALSE))

FamiliesOf(group) ==
    IF IsList(Get(group, "ipv")) THEN Get(group, "ipv").v ELSE <<Get(group, "ipv")>>

\* args with the wildcard-address token replaced for the family
WildcardArgs(x, ipv) ==
    S(ReplaceNamed(Get(x, "args").v, "ipv_any",
                   IF ipv = S("ipv6") THEN "::/0" ELSE "0.0.0.0/0"))

\* what the groups add to a list of direct: per group, per family, per entry
ChainsOf(groups) ==
    Concat([g \in 1..Len(groups) |->
        [j \in 1..Len(FamiliesOf(groups[g])) |->
            M(<<<<"ipv", FamiliesOf(groups[g])[j]>>, <<"table", Get(groups[g], "table")>>,
                <<"chain", Get(groups[g], "chain")>>>>)]])

RulesOfFamily(group, ipv, rules) ==
    [k \in 1..Len(rules) |->
        M(<<<<"ipv", ipv>>, <<"table", Get(group, "table")>>, <<"chain", Get(group, "chain")>>,
            <<"priority", Get(rules[k], "priority")>>,
            <<"args", WildcardArgs(rules[k], ipv)>>>>)]

RulesOf(groups) ==
    Concat([g \in 1..Len(groups) |->
        Concat([j \in 1..Len(FamiliesOf(groups[g])) |->
            RulesOfFamily(groups[g], FamiliesOf(groups[g])[j], Elems(groups[g], "rules"))])])

PassthroughsOfFamily(ipv, pts) ==
    [k \in 1..Len(pts) |-> M(<<<<"ipv", ipv>>, <<"args", WildcardArgs(pts[k], ipv)>>>>)]

PassthroughsOf(groups) ==
    Concat([g \in 1..Len(groups) |->
        Concat([j \in 1..Len(FamiliesOf(groups[g])) |->
            PassthroughsOfFamily(FamiliesOf(groups[g])[j],
                                 Elems(groups[g], "passthroughs"))])])

GroupsAppended(out, direct, groups) ==
    /\ Elems(out, "chains") = Elems(direct, "chains") \o ChainsOf(groups)
    /\ Elems(out, "rules") = Elems(direct, "rules") \o RulesOf(groups)
    /\ Elems(out, "passthroughs") = Elems(direct, "passthroughs") \o PassthroughsOf(groups)
    /\ ~Has(out, "rule_groups")

RECURSIVE HasKeyIn(_, _)
HasKeyIn(x, key) ==
    IF IsMap(x) THEN Has(x, key) \/ \E i \in 1..Len(x.v) : HasKeyIn(x.v[i][2], key)
    ELSE IF IsList(x) THEN \E i \in 1..Len(x.v) : HasKeyIn(x.v[i], key)
    ELSE FALSE

\* C14: processTemplate applied to the config it returned gives an equal
\* config (as data: a key whose value is undefined counts as absent),
\* without a loop key and without a rule_groups key
C14_Idempotent ==
    pc = "docAgain" =>
        /\ ~again.threw
        /\ JsonClone(again.value.config) = JsonClone(parsed.value.config)
        /\ ~HasKeyIn(again.value.config, "loop")
        /\ ~HasKeyIn(again.value.config, "rule_groups")

-----------------------------------------------------------------------------
(* The import of a script: parseCommands on texts of a few lines *)

ShellLines ==
    {"firewall-cmd --permanent --zone=public --add-port=$PORT/tcp",
     "firewall-cmd --zone=${ZONE} --add-service=http",
     "sudo firewall-cmd --add-source=$(echo 10.0.0.0/8)",
     "firewall-cmd --reload $1"}

ZoneLines ==
    {"firewall-cmd --permanent --add-service=http",
     "firewall-cmd --zone=dmz --add-port=443/tcp",
     "firewall-cmd --set-target=DROP",
     "sudo firewall-cmd --remove-service=ssh",
     "firewall-cmd --add-foo=bar",
     "firewall-cmd --zone=dmz --frob"}

DirectLines ==
    {"firewall-cmd --direct --add-chain ipv4 filter LOG_DROP",
     "firewall-cmd --permanent --direct --add-rule ipv4 filter INPUT 0 -j ACCEPT"}

QuietLines ==
    {"firewall-cmd --reload", "firewall-cmd --permanent --complete-reload",
     "firewall-cmd --state", "firewall-cmd --version", "firewall-cmd --runtime-to-permanent",
     "firewall-cmd --check-config", "firewall-cmd --get-zones",
     "firewall-cmd --zone=work --list-all", "firewall-cmd --zone=work --query-service=http",
     "firewall-cmd --add-service=dns --list-services",
     "firewall-cmd --new-zone-from-file=x", "firewall-cmd",
     "# open $PORT", "echo $HOME", ""}

\* a zone command whose port has no value: parsePort raises
ThrowingLines == {"firewall-cmd --add-port"}

ScriptLines == ShellLines \cup ZoneLines \cup DirectLines \cup QuietLines \cup ThrowingLines

MaxLines == 2

\* the lines of src/examples/import-edge-cases.sh, one of each section
EdgeCases ==
    <<"# --- Should ERROR (shell variables) ---",
      "firewall-cmd --permanent --zone=public --add-port=$PORT/tcp",
      "firewall-cmd --permanent --zone=${ZONE} --add-service=http",
      "",
      "firewall-cmd --permanent --add-service=http",
      "firewall-cmd --zone=public --list-rich-rules",
      "firewall-cmd --permanent --set-target=ACCEPT",
      "iptables -L">>

\* commands of the direct interface: chains, rules and passthroughs with
\* enough and with too few positional tokens, with and without an action
DirectCases ==
    {"firewall-cmd --permanent --direct --add-chain ipv4 filter DOCKER-USER",
     "firewall-cmd --direct --remove-chain ipv6 nat PRE",
     "firewall-cmd --direct --add-chain ipv4 filter",
     "firewall-cmd --permanent --direct --add-rule ipv4 filter DOCKER-USER 0 -m conntrack --ctstate RELATED,ESTABLISHED -j ACCEPT",
     "firewall-cmd --direct --add-rule ipv4 filter INPUT 10 -p tcp --dport 22 -j ACCEPT",
     "firewall-cmd --direct --add-rule ipv4 filter INPUT 1 -m state --state NEW -j ACCEPT",
     "firewall-cmd --direct --remove-rule ipv4 filter INPUT 0",
     "firewall-cmd --permanent --direct --add-passthrough ipv4 -t nat -A POSTROUTING -o eth0 -j MASQUERADE",
     "firewall-cmd --direct --remove-passthrough ipv6",
     "firewall-cmd --direct --add-chain=ipv4 filter INPUT",
     "firewall-cmd --direct"}

DirectScripts == {Join(ls, "\n") : ls \in UNION {[1..n -> DirectCases] : n \in 1..MaxLines}}

\* zone commands with more than one flag
FlagCases ==
    {"firewall-cmd --zone=dmz --add-service=http --add-port=443/tcp",
     "firewall-cmd --add-port=443/tcp --set-target=DROP",
     "firewall-cmd --permanent --zone=dmz --frob --remove-masquerade --add-interface=eth0",
     "firewall-cmd --add-forward=yes --remove-source=10.0.0.0/8 --add-forward",
     "sudo firewall-cmd --remove-icmp-block-inversion --add-icmp-block=echo-request",
     "firewall-cmd --zone=dmz --remove-source-port=1024 --add-protocol=gre",
     "firewall-cmd --add-forward-port=port=80:proto=tcp:toport=8080 --add-masquerade",
     "firewall-cmd --add-service=http --add-port=80/tcp --add-service=dns",
     "firewall-cmd --zone=dmz --remove-service=http",
     "firewall-cmd --zone=dmz --frob --nicate"}
FlagScripts == {Join(ls, "\n") : ls \in UNION {[1..n -> FlagCases] : n \in 1..MaxLines}}

Scripts ==
    {Join(ls, "\n") : ls \in UNION {[1..n -> ScriptLines] : n \in 0..MaxLines}}
    \cup {Join(EdgeCases, "\n")} \cup DirectScripts \cup FlagScripts

InitImport ==
    /\ pc = "script"
    /\ script \in Scripts
    /\ fragment = Idle
    /\ config = Undef
    /\ runtime = FALSE
    /\ applyOut = Idle
    /\ removeOut = Idle
    /\ fw = {}
    /\ rule = Undef
    /\ ruleStr = ""
    /\ ruleBack = Undef
    /\ ruleAgain = ""
    /\ doc = Undef
    /\ parsed = Idle
    /\ tabs = Idle
    /\ again = Idle
    /\ existing = Undef
    /\ incoming = Undef
    /\ merged = Idle

\* the import of the pasted text
ImportScript ==
    /\ pc = "script"
    /\ fragment' = parseCommands(script)
    /\ pc' = "scriptParsed"
    /\ UNCHANGED <<config, runtime, applyOut, removeOut, fw, richVars, docVars,
                   script, existing, incoming, merged>>

NextImport == ImportScript

SpecImport == InitImport /\ [][NextImport]_vars

\* the line as the classification sees it: trimmed, without a leading sudo
Command(raw) ==
    IF StartsWith(Trim(raw), "sudo ") THEN From(Trim(raw), 6) ELSE Trim(raw)

\* $NAME, ${NAME} or $(...) somewhere in a firewall-cmd line
MentionsShellVariable(raw) ==
    /\ StartsWith(Command(raw), "firewall-cmd")
    /\ \E i \in 1..(Len(raw) - 1) :
          Char(raw, i) = "$" /\ Char(raw, i + 1) \in WordChars \cup {"{", "("}

Blanked(lines, i) == Join([k \in 1..Len(lines) |-> IF k = i THEN "" ELSE lines[k]], "\n")

ElementsOf(xs) == {xs[k] : k \in 1..Len(xs)}

\* the result with, against the result without, the line i
OneMoreError(with, without, i) ==
    IF without.threw THEN with.threw
    ELSE /\ ~with.threw
         /\ with.value.config = without.value.config
         /\ with.value.skipped = without.value.skipped
         /\ Len(with.value.errors) = Len(without.value.errors) + 1
         /\ ElementsOf(with.value.errors)
               = ElementsOf(without.value.errors)
                 \cup {Where(i) \o "shell variables not supported (expand variables before importing)"}
         /\ \A k \in 1..Len(without.value.skipped) :
               ~StartsWith(without.value.skipped[k], Where(i))

LineFails(lines, i) ==
    MentionsShellVariable(lines[i])
        => OneMoreError(fragment, parseCommands(Blanked(lines, i)), i)

\* C15: a firewall-cmd line with a shell variable adds one error with its
\* line number, nothing to the fragment and no skipped record; the other
\* lines are read as they are read without it
C15_ShellVariableLine ==
    pc = "scriptParsed" =>
        \A i \in 1..Len(Split(script, "\n")) : LineFails(Split(script, "\n"), i)

C15_Witness ==
    /\ pc = "scriptParsed"
    /\ script = Join(EdgeCases, "\n")
    /\ ~fragment.threw
    /\ Len(fragment.value.errors) = 2
    /\ fragment.value.errors[1]
          = "Line 2: shell variables not supported (expand variables before importing)"
    /\ Get(Get(Get(fragment.value.config, "zones"), "public"), "services") = L(<<S("http")>>)
    /\ Get(Get(Get(fragment.value.config, "zones"), "public"), "target") = S("ACCEPT")

\* the flags of a line that is read as a command, none for any other line
FlagsOf(raw) ==
    IF StartsWith(Command(raw), "firewall-cmd") /\ ~MentionsShellVariable(raw)
    THEN parseFlags(tokenizeLine(Command(raw)))
    ELSE M(<<>>)

\* an add-*, remove-* or set-target flag
Modifies(flags) ==
    \E k \in KeySet(flags) :
        StartsWith(k, "add-") \/ StartsWith(k, "remove-") \/ k = "set-target"

\* a reload or a query invocation
Quiet(flags) ==
    \E k \in KeySet(flags) :
        \/ k \in {"reload", "complete-reload", "state", "version", "runtime-to-permanent",
                  "check-config"}
        \/ StartsWith(k, "get-") \/ StartsWith(k, "list-") \/ StartsWith(k, "query-")

ZonesOf(result) ==
    IF Has(result.value.config, "zones") THEN KeySet(Get(result.value.config, "zones")) ELSE {}

\* the line with flags f may put the zone z into the fragment
Creates(f, z) ==
    /\ ~Quiet(f)
    /\ ~Has(f, "direct")
    /\ \/ Has(f, "zone") /\ Get(f, "zone") = S(z)
       \/ ~Has(f, "zone") /\ Modifies(f) /\ z = "public"

-----------------------------------------------------------------------------
(* The merge of an imported fragment into the configuration of the editor *)

\* `${x || d}`
OrText(x, d) == IF Truthy(x) THEN ToStr(x) ELSE d

\* x || []
OrEmpty(x) == IF Truthy(x) THEN x.v ELSE <<>>

portKey(p) ==
    IF IsMap(p) \/ IsList(p)
    THEN ToStr(Get(p, "port")) \o "/" \o OrText(Get(p, "protocol"), "tcp")
    ELSE ToStr(p)

forwardPortKey(fp) ==
    ToStr(Get(fp, "port")) \o "/" \o OrText(Get(fp, "protocol"), "tcp") \o "/"
    \o OrText(Get(fp, "to_port"), "") \o "/" \o OrText(Get(fp, "to_addr"), "")

stringKey(v) == IF IsMap(v) \/ IsList(v) THEN ToStr(Get(v, "value")) ELSE ToStr(v)

\* JSON.stringify(rule): two rules have the same text when they are the
\* same value once read back
richRuleKey(r) == JsonClone(r)

chainKey(c) ==
    ToStr(Get(c, "ipv")) \o "|" \o ToStr(Get(c, "table")) \o "|" \o ToStr(Get(c, "chain"))

ruleKey(r) ==
    chainKey(r) \o "|" \o ToStr(Get(r, "priority")) \o "|" \o ToStr(Get(r, "args"))

ptKey(pt) == ToStr(Get(pt, "ipv")) \o "|" \o ToStr(Get(pt, "args"))

\* the key function of a field, by its name in arrayFields and mergeDirect
KeyFor(keyFn, x) ==
    CASE keyFn = "stringKey" -> stringKey(x)
      [] keyFn = "portKey" -> portKey(x)
      [] keyFn = "richRuleKey" -> richRuleKey(x)
      [] keyFn = "forwardPortKey" -> forwardPortKey(x)
      [] keyFn = "chainKey" -> chainKey(x)
      [] keyFn = "ruleKey" -> ruleKey(x)
      [] keyFn = "ptKey" -> ptKey(x)

\* a filter that lets every item through
dedupNone(arr, keys) == arr

\* dedup(arr, keyFn), keys[i] being keyFn(arr[i]): the first item of each key
dedup(arr, keys) == FirstSeen(arr, keys)

mergeFields ==
    <<<<"interfaces", "stringKey">>, <<"sources", "stringKey">>, <<"services", "stringKey">>,
      <<"ports", "portKey">>, <<"protocols", "stringKey">>, <<"source_ports", "portKey">>,
      <<"rich_rules", "richRuleKey">>, <<"forward_ports", "forwardPortKey">>,
      <<"icmp_blocks", "stringKey">>>>

ZoneScalars == <<"target", "forward", "masquerade", "icmp_block_inversion">>

\* if (a.length > 0 || b.length > 0) merged[field] = dedup([...a, ...b], keyFn)
MergeField(out, field, keyFn, both) ==
    IF Len(both) > 0
    THEN Put(out, field,
             L(dedup(both, Materialise([i \in 1..Len(both) |-> KeyFor(keyFn, both[i])]))))
    ELSE out

RECURSIVE MergeFields(_, _, _, _)
MergeFields(out, old, new, i) ==
    IF i > Len(mergeFields) THEN out
    ELSE MergeFields(MergeField(out, mergeFields[i][1], mergeFields[i][2],
                                OrEmpty(Get(old, mergeFields[i][1]))
                                \o OrEmpty(Get(new, mergeFields[i][1]))),
                     old, new, i + 1)

\* if (incoming.x !== undefined) merged.x = incoming.x
RECURSIVE MergeScalars(_, _, _)
MergeScalars(out, new, i) ==
    IF i > Len(ZoneScalars) THEN out
    ELSE MergeScalars(IF IsUndef(Get(new, ZoneScalars[i])) THEN out
                      ELSE Put(out, ZoneScalars[i], Get(new, ZoneScalars[i])),
                      new, i + 1)

\* a merge of two zones that takes the incoming one
incomingZone(old, new) == new

\* mergeZone(existing, incoming), on a copy of the fields of existing
mergeZone(old, new) == MergeFields(MergeScalars(old, new, 1), old, new, 1)

\* a mergeDirect that forgets the rule groups
DroppedGroups(direct, old) == direct

\* if (existing.rule_groups) merged.rule_groups = existing.rule_groups
KeptGroups(direct, old) ==
    IF Truthy(Get(old, "rule_groups")) THEN Put(direct, "rule_groups", Get(old, "rule_groups"))
    ELSE direct

DirectField(direct, field, keyFn, old, new) ==
    MergeField(direct, field, keyFn, OrEmpty(Get(old, field)) \o OrEmpty(Get(new, field)))

\* mergeDirect(existing, incoming), from an empty object on
mergeDirect(old, new) ==
    KeptGroups(DirectField(DirectField(DirectField(M(<<>>), "chains", "chainKey", old, new),
                                       "rules", "ruleKey", old, new),
                           "passthroughs", "ptKey", old, new),
               old)

\* the loop over Object.entries(incoming.zones), writing into merged.zones
RECURSIVE MergeZonesFrom(_, _, _)
MergeZonesFrom(zones, entries, i) ==
    IF i > Len(entries) THEN zones
    ELSE MergeZonesFrom(Put(zones, entries[i][1],
                            IF Truthy(Get(zones, entries[i][1]))
                            THEN mergeZone(Get(zones, entries[i][1]), entries[i][2])
                            ELSE entries[i][2]),
                        entries, i + 1)

\* merged.zones after the loop; it starts as the zones object of existing,
\* or as a new object when existing has none
MergedZones(old, new) ==
    MergeZonesFrom(IF Truthy(Get(old, "zones")) THEN Get(old, "zones") ELSE M(<<>>),
                   Get(new, "zones").v, 1)

MergedInto(old, new) ==
    IF Truthy(Get(new, "zones")) THEN Put(old, "zones", MergedZones(old, new)) ELSE old

MergedDirect(result, new) ==
    IF ~Truthy(Get(new, "direct")) THEN result
    ELSE IF Truthy(Get(result, "direct"))
    THEN Put(result, "direct", mergeDirect(Get(result, "direct"), Get(new, "direct")))
    ELSE Put(result, "direct", Get(new, "direct"))

\* the object returned by mergeConfigs(existing, incoming)
mergeConfigs(old, new) == MergedDirect(MergedInto(old, new), new)

\* existing once mergeConfigs has returned: merged = { ...existing } copies
\* the reference to existing.zones, so the zones written into merged.zones
\* are written into the zones object of existing
ExistingAfter(old, new) ==
    IF Truthy(Get(old, "zones")) /\ Truthy(Get(new, "zones"))
    THEN Put(old, "zones", MergedZones(old, new))
    ELSE old

Port80 == M(<<<<"port", N(80)>>, <<"protocol", S("tcp")>>>>)
Port80Bare == M(<<<<"port", N(80)>>>>)
Port53 == M(<<<<"port", N(53)>>, <<"protocol", S("udp")>>>>)
Forward80 == M(<<<<"port", N(80)>>, <<"protocol", S("tcp")>>, <<"to_port", N(8080)>>>>)
Forward80Bare == M(<<<<"port", N(80)>>, <<"to_port", N(8080)>>>>)
Forward80Addr == Put(Forward80, "to_addr", S("10.0.0.5"))
RichFrom == M(<<<<"family", S("ipv4")>>, <<"source", S("10.0.0.1")>>, <<"action", S("accept")>>>>)
RichSsh == M(<<<<"service", S("ssh")>>, <<"action", S("accept")>>>>)
SshNoted == M(<<<<"value", S("ssh")>>, <<"comment", S("admin")>>>>)

\* a zone of the editor, with a field the merge does not know
EditorZone ==
    M(<<<<"target", S("default")>>, <<"interfaces", L(<<S("eth0")>>)>>,
        <<"services", L(<<S("ssh"), S("http")>>)>>, <<"ports", L(<<Port80, S("443/tcp")>>)>>,
        <<"rich_rules", L(<<RichFrom>>)>>, <<"note", S("edge")>>, <<"masquerade", B(TRUE)>>>>)

\* a zone as the import builds it
ImportedZone ==
    M(<<<<"target", S("DROP")>>, <<"services", L(<<S("http"), S("dns")>>)>>,
        <<"ports", L(<<Port80, Port53>>)>>, <<"forward", B(TRUE)>>,
        <<"forward_ports", L(<<Forward80>>)>>, <<"rich_rules", L(<<RichFrom, RichSsh>>)>>,
        <<"sources", L(<<S("10.0.0.0/8")>>)>>>>)

\* a zone with different elements of one key
AliasZone ==
    M(<<<<"services", L(<<SshNoted, S("ssh")>>)>>, <<"ports", L(<<Port80Bare, Port80>>)>>,
        <<"forward_ports", L(<<Forward80Bare, Forward80, Forward80Addr>>)>>,
        <<"source_ports", L(<<S("1024/udp"), M(<<<<"port", N(1024)>>, <<"protocol", S("udp")>>>>)>>)>>>>)

SparseZone ==
    M(<<<<"services", L(<<>>)>>, <<"icmp_blocks", L(<<S("echo-request")>>)>>,
        <<"icmp_block_inversion", B(FALSE)>>>>)

\* rich rules with their fields, or those of their log, in another order
RichFromTurned == M(<<<<"action", S("accept")>>, <<"source", S("10.0.0.1")>>, <<"family", S("ipv4")>>>>)
RichLogged ==
    M(<<<<"service", S("ssh")>>,
        <<"log", M(<<<<"prefix", S("ssh ")>>, <<"level", S("info")>>>>)>>,
        <<"action", S("accept")>>>>)
RichLoggedTurned ==
    M(<<<<"service", S("ssh")>>,
        <<"log", M(<<<<"level", S("info")>>, <<"prefix", S("ssh ")>>>>)>>,
        <<"action", S("accept")>>>>)
RichLoggedOther ==
    M(<<<<"service", S("ssh")>>,
        <<"log", M(<<<<"prefix", S("ssh ")>>, <<"level", S("debug")>>>>)>>,
        <<"action", S("accept")>>>>)

TurnedZone ==
    M(<<<<"rich_rules", L(<<RichLogged, RichFromTurned, RichLoggedTurned, RichLoggedOther,
                            RichLogged>>)>>>>)

EditorDirect ==
    M(<<<<"chains", L(<<ChainDocker>>)>>,
        <<"rules", L(<<DirectRule("ipv4", 0, "-j ACCEPT"), DirectRule("ipv4", 0, "-j ACCEPT")>>)>>,
        <<"rule_groups", L(<<WildcardGroup(S("ipv6"))>>)>>, <<"note", S("edge")>>>>)

ImportedDirect ==
    M(<<<<"chains", L(<<ChainDocker, ChainDocker6>>)>>,
        <<"rules", L(<<DirectRule("ipv4", 0, "-j ACCEPT"), DirectRule("ipv4", 1, "-j ACCEPT")>>)>>,
        <<"passthroughs", L(<<M(<<<<"ipv", S("ipv4")>>, <<"args", S("-I INPUT -j ACCEPT")>>>>),
                              M(<<<<"ipv", S("ipv6")>>, <<"args", S("-I INPUT -j ACCEPT")>>>>),
                              M(<<<<"ipv", S("ipv4")>>, <<"args", S("-I INPUT -j ACCEPT")>>>>)>>)>>>>)

EditorVariables == M(<<<<"iface", S("eth0")>>>>)

MergeInputs ==
    {M(<<>>),
     M(<<<<"variables", EditorVariables>>, <<"zones", M(<<>>)>>>>),
     M(<<<<"variables", EditorVariables>>,
         <<"zones", M(<<<<"public", EditorZone>>, <<"dmz", SparseZone>>>>)>>,
         <<"direct", EditorDirect>>>>),
     M(<<<<"variables", EditorVariables>>, <<"direct", EditorDirect>>>>),
     M(<<<<"zones", M(<<<<"public", EditorZone>>>>)>>>>),
     M(<<<<"zones", M(<<<<"public", AliasZone>>>>)>>>>),
     M(<<<<"zones", M(<<<<"dmz", AliasZone>>, <<"public", SparseZone>>>>)>>,
         <<"direct", EditorDirect>>>>),
     M(<<<<"zones", M(<<<<"work", SparseZone>>, <<"public", ImportedZone>>,
                        <<"home", EditorZone>>>>)>>>>),
     M(<<<<"zones", M(<<<<"public", ImportedZone>>>>)>>, <<"direct", ImportedDirect>>>>),
     M(<<<<"zones", M(<<<<"public", SparseZone>>>>)>>, <<"direct", ImportedDirect>>>>),
     M(<<<<"direct", ImportedDirect>>>>),
     M(<<<<"zones", M(<<<<"public", TurnedZone>>>>)>>>>),
     M(<<<<"direct", M(<<<<"chains", L(<<ChainDocker6, ChainDocker, ChainDocker6>>)>>>>)>>>>)}

InitMerge ==
    /\ pc = "merge"
    /\ existing \in MergeInputs
    /\ incoming \in MergeInputs
    /\ merged = Idle
    /\ script = ""
    /\ fragment = Idle
    /\ config = Undef
    /\ runtime = FALSE
    /\ applyOut = Idle
    /\ removeOut = Idle
    /\ fw = {}
    /\ rule = Undef
    /\ ruleStr = ""
    /\ ruleBack = Undef
    /\ ruleAgain = ""
    /\ doc = Undef
    /\ parsed = Idle
    /\ tabs = Idle
    /\ again = Idle

\* finalConfig = mergeConfigs(existing, config)
MergeConfigs ==
    /\ pc = "merge"
    /\ merged' = Returned([config |-> mergeConfigs(existing, incoming),
                           existing |-> ExistingAfter(existing, incoming),
                           incoming |-> incoming])
    /\ pc' = "merged"
    /\ UNCHANGED <<existing, incoming, script, genVars, richVars, docVars>>

NextMerge == MergeConfigs

SpecMerge == InitMerge /\ [][NextMerge]_vars

\* the first element of each key, by the keys gone by
RECURSIVE Firsts(_, _, _)
ClaimedKey(kind, x) ==
    CASE kind = "port" ->
           IF IsMap(x)
           THEN ToStr(Get(x, "port")) \o "/"
                \o (IF Has(x, "protocol") THEN ToStr(Get(x, "protocol")) ELSE "tcp")
           ELSE ToStr(x)
      [] kind = "forward" ->
           ToStr(Get(x, "port")) \o "/"
           \o (IF Has(x, "protocol") THEN ToStr(Get(x, "protocol")) ELSE "tcp") \o "/"
           \o (IF Has(x, "to_port") THEN ToStr(Get(x, "to_port")) ELSE "") \o "/"
           \o (IF Has(x, "to_addr") THEN ToStr(Get(x, "to_addr")) ELSE "")
      [] kind = "string" -> IF IsMap(x) THEN ToStr(Get(x, "value")) ELSE ToStr(x)
      [] kind = "rich" -> x
      [] kind = "chain" -> <<Get(x, "ipv"), Get(x, "table"), Get(x, "chain")>>
      [] kind = "rule" -> <<Get(x, "ipv"), Get(x, "table"), Get(x, "chain"),
                            Get(x, "priority"), Get(x, "args")>>
      [] kind = "passthrough" -> <<Get(x, "ipv"), Get(x, "args")>>

Firsts(xs, kind, seen) ==
    IF Len(xs) = 0 THEN <<>>
    ELSE IF ClaimedKey(kind, xs[1]) \in seen THEN Firsts(Tail(xs), kind, seen)
    ELSE <<xs[1]>> \o Firsts(Tail(xs), kind, seen \cup {ClaimedKey(kind, xs[1])})

ListKinds ==
    <<<<"interfaces", "string">>, <<"sources", "string">>, <<"services", "string">>,
      <<"ports", "port">>, <<"protocols", "string">>, <<"source_ports", "port">>,
      <<"rich_rules", "rich">>, <<"forward_ports", "forward">>, <<"icmp_blocks", "string">>>>

DirectKinds == <<<<"chains", "chain">>, <<"rules", "rule">>, <<"passthroughs", "passthrough">>>>

ScalarNames == {"target", "forward", "masquerade", "icmp_block_inversion"}

ZonesIn(cfg) == IF Has(cfg, "zones") THEN KeySet(Get(cfg, "zones")) ELSE {}
ZoneOf(cfg, name) == Get(Get(cfg, "zones"), name)

\* the lists of out are those of old followed by those of new, one per key
ListsMerged(out, old, new, kinds) ==
    \A i \in 1..Len(kinds) :
        Elems(out, kinds[i][1])
            = Firsts(Elems(old, kinds[i][1]) \o Elems(new, kinds[i][1]), kinds[i][2], {})

ScalarsMerged(out, old, new) ==
    \A x \in ScalarNames :
        Get(out, x) = IF Has(new, x) THEN Get(new, x) ELSE Get(old, x)

NoRepeats(xs) == \A i, j \in 1..Len(xs) : xs[i] = xs[j] => i = j

\* out holds the elements of the lists of old, each once
SameElements(out, old, kinds) ==
    \A i \in 1..Len(kinds) :
        /\ ElementsOf(Elems(out, kinds[i][1])) = ElementsOf(Elems(old, kinds[i][1]))
        /\ NoRepeats(Elems(out, kinds[i][1]))

\* out holds the first element of each key of the lists of old
FirstOfEachKey(out, old, kinds) ==
    \A i \in 1..Len(kinds) :
        Elems(out, kinds[i][1]) = Firsts(Elems(old, kinds[i][1]), kinds[i][2], {})

ScalarsKept(out, old) == \A x \in ScalarNames : Get(out, x) = Get(old, x)

\* the rule groups of old, where it has some, are those of out
GroupsKept(out, old) ==
    Has(Get(old, "direct"), "rule_groups")
        => Get(Get(out, "direct"), "rule_groups") = Get(Get(old, "direct"), "rule_groups")

\* C18 as stated: merging a configuration with itself gives lists with the
\* same set of elements, each once, the scalars of every zone and the rule
\* groups as they were
C18_SelfMergeSameElements ==
    (pc = "merged" /\ incoming = existing) =>
        /\ \A z \in ZonesIn(existing) :
              /\ SameElements(ZoneOf(merged.value.config, z), ZoneOf(existing, z), ListKinds)
              /\ ScalarsKept(ZoneOf(merged.value.config, z), ZoneOf(existing, z))
        /\ SameElements(Get(merged.value.config, "direct"), Get(existing, "direct"),
                        DirectKinds)
        /\ GroupsKept(merged.value.config, existing)

\* C18 by key: merging a configuration with itself gives lists holding, in
\* order, the first element of each dedup key, the scalars of every zone and
\* the rule groups as they were
C18_SelfMergeFirstOfKey ==
    (pc = "merged" /\ incoming = existing) =>
        /\ \A z \in ZonesIn(existing) :
              /\ FirstOfEachKey(ZoneOf(merged.value.config, z), ZoneOf(existing, z), ListKinds)
              /\ ScalarsKept(ZoneOf(merged.value.config, z), ZoneOf(existing, z))
        /\ FirstOfEachKey(Get(merged.value.config, "direct"), Get(existing, "direct"),
                          DirectKinds)
        /\ GroupsKept(merged.value.config, existing)

C18_Witness ==
    /\ pc = "merged"
    /\ incoming = existing
    /\ ZoneOf(existing, "dmz") = AliasZone
    /\ Get(existing, "direct") = EditorDirect
    /\ Elems(ZoneOf(merged.value.config, "dmz"), "ports") = <<Port80Bare>>
    /\ Elems(ZoneOf(merged.value.config, "dmz"), "services") = <<SshNoted>>
    /\ Elems(ZoneOf(merged.value.config, "dmz"), "forward_ports")
          = <<Forward80Bare, Forward80Addr>>
    /\ Len(Elems(Get(merged.value.config, "direct"), "rules")) = 1
    /\ Get(ZoneOf(merged.value.config, "public"), "icmp_block_inversion") = B(FALSE)
    /\ Has(Get(merged.value.config, "direct"), "rule_groups")

\* every key of old that new lacks is in out with its value
OnlyInOldKept(out, old, new) ==
    \A k \in KeySet(old) \ KeySet(new) : Get(out, k) = Get(old, k)

MergedFields == ScalarNames \cup {ListKinds[i][1] : i \in 1..Len(ListKinds)}

\* the fields of a shared zone that the merge does not know
OtherFieldsKept(out, old) ==
    \A k \in KeySet(old) \ MergedFields : Get(out, k) = Get(old, k)

\* the zones only new has, in the order of new
RECURSIVE Added(_, _)
Added(names, known) ==
    IF Len(names) = 0 THEN <<>>
    ELSE (IF names[1] \in known THEN <<>> ELSE <<names[1]>>) \o Added(Tail(names), known)

ZoneOrder(cfg) == IF Has(cfg, "zones") THEN Materialise(Keys(Get(cfg, "zones"))) ELSE <<>>

\* C19: the keys only existing has, the zones only existing has, the other
\* fields of a shared zone and the rule groups of existing are in the
\* result as they were; the zones only incoming has follow, in its order
C19_ExistingCarriedOver ==
    pc = "merged" =>
        /\ OnlyInOldKept(merged.value.config, existing, incoming)
        /\ \A z \in ZonesIn(existing) \ ZonesIn(incoming) :
              ZoneOf(merged.value.config, z) = ZoneOf(existing, z)
        /\ \A z \in ZonesIn(existing) \cap ZonesIn(incoming) :
              OtherFieldsKept(ZoneOf(merged.value.config, z), ZoneOf(existing, z))
        /\ GroupsKept(merged.value.config, existing)
        /\ ZoneOrder(merged.value.config)
              = ZoneOrder(existing) \o Added(ZoneOrder(incoming), ZonesIn(existing))
        /\ \A z \in ZonesIn(incoming) \ ZonesIn(existing) :
              ZoneOf(merged.value.config, z) = ZoneOf(incoming, z)

C19_Witness ==
    /\ pc = "merged"
    /\ Has(existing, "variables")
    /\ ZoneOrder(existing) = <<"public", "dmz">>
    /\ ZoneOrder(incoming) = <<"work", "public", "home">>
    /\ Get(existing, "direct") = EditorDirect
    /\ ZoneOrder(merged.value.config) = <<"public", "dmz", "work", "home">>
    /\ Get(merged.value.config, "variables") = EditorVariables
    /\ Get(ZoneOf(merged.value.config, "public"), "note") = S("edge")
    /\ Get(ZoneOf(merged.value.config, "public"), "target") = S("DROP")
    /\ ZoneOf(merged.value.config, "dmz") = SparseZone

\* C20: after the call both arguments are what they were before it
C20_ArgumentsUntouched ==
    pc = "merged" =>
        /\ merged.value.existing = existing
        /\ merged.value.incoming = incoming

-----------------------------------------------------------------------------
(* The remove script: target and icmp_block_inversion *)

\* a command line of the script for the zone name that mentions text
ZoneLineWith(lines, name, text) ==
    \E i \in 1..Len(lines) :
        /\ IsCommand(lines[i])
        /\ Decompose(lines[i]).zone = name
        /\ Contains(lines[i], text)

InversionRemoved(lines, name, zone) ==
    Get(zone, "icmp_block_inversion") = B(TRUE)
        => /\ ZoneLineWith(lines, name, "--remove-icmp-block-inversion")
           /\ ~ZoneLineWith(lines, name, "--add-icmp-block-inversion")

TargetRemoved(lines, name, zone) ==
    Has(zone, "target")
        => /\ ZoneLineWith(lines, name, "target")
           /\ ~ZoneLineWith(lines, name, "--set-target=" \o ToStr(Get(zone, "target")))

\* C21: the remove script holds, for every zone with a target, a command
\* that takes the target override back, and for every zone with
\* icmp_block_inversion true the line --remove-icmp-block-inversion
C21_DedicatedRemoveForms ==
    (pc = "removed" /\ ~removeOut.threw) =>
        \A i \in 1..Len(ZoneEntries(config)) :
            /\ TargetRemoved(removeOut.value, ZoneEntries(config)[i][1],
                             ZoneEntries(config)[i][2])
            /\ InversionRemoved(removeOut.value, ZoneEntries(config)[i][1],
                                ZoneEntries(config)[i][2])

-----------------------------------------------------------------------------
(* The runtime option of the generator *)

Transient(line) == ReplaceFirst(line, " --permanent", "")

\* from line i on: a target line stands alone in permanent form, every other
\* command line is permanent and is followed by its transient form
RECURSIVE Doubled(_, _)
Doubled(lines, i) ==
    IF i > Len(lines) THEN TRUE
    ELSE IF ~IsCommand(lines[i]) THEN Doubled(lines, i + 1)
    ELSE IF Contains(lines[i], " --set-target=")
    THEN /\ Contains(lines[i], " --permanent ")
         /\ (i < Len(lines) => lines[i + 1] # Transient(lines[i]))
         /\ Doubled(lines, i + 1)
    ELSE /\ Contains(lines[i], " --permanent ")
         /\ i < Len(lines)
         /\ lines[i + 1] = Transient(lines[i])
         /\ lines[i + 1] # lines[i]
         /\ Doubled(lines, i + 2)

\* every command line but the reload line, which is the last, is permanent,
\* and no line is followed by its transient form
Single(lines) ==
    /\ Len(lines) > 0
    /\ lines[Len(lines)] = Reload
    /\ \A i \in 1..(Len(lines) - 1) :
          IsCommand(lines[i]) =>
              /\ Contains(lines[i], " --permanent ")
              /\ lines[i + 1] # Transient(lines[i])

TargetOnce(lines, cfg) ==
    \A i \in 1..Len(ZoneEntries(cfg)) :
        Has(ZoneEntries(cfg)[i][2], "target") =>
            Cardinality({k \in 1..Len(lines) :
                            /\ Decompose(lines[k]).zone = ZoneEntries(cfg)[i][1]
                            /\ Contains(lines[k], "-target")}) = 1

ModeOf(lines, rt) == IF rt THEN Reload \notin ElementsOf(lines) /\ Doubled(lines, 1)
                     ELSE Single(lines)

\* C22: with the runtime option no reload line is emitted, every command
\* but --set-target is followed by its form without --permanent, and
\* --set-target is emitted once, permanent; without the option every
\* command but the final reload is permanent and none is doubled
C22_RuntimeDoubling ==
    /\ (pc = "applied" /\ ~applyOut.threw) =>
          /\ ModeOf(applyOut.value, runtime)
          /\ TargetOnce(CommandLines(applyOut.value), config)
    /\ (pc = "removed" /\ ~removeOut.threw) => ModeOf(removeOut.value, runtime)

C22_Witness ==
    /\ pc = "removed"
    /\ runtime
    /\ ~applyOut.threw
    /\ ~removeOut.threw
    /\ \E i \in 1..Len(applyOut.value) : Contains(applyOut.value[i], " --set-target=")
    /\ \E i \in 1..Len(applyOut.value) :
          Contains(applyOut.value[i], "--direct --add-rule ")
          /\ ~Contains(applyOut.value[i], " --permanent")
    /\ Len(CommandLines(removeOut.value)) > 20

-----------------------------------------------------------------------------
(* The import of direct commands *)

ActionWords ==
    {"--add-chain", "--remove-chain", "--add-rule", "--remove-rule",
     "--add-passthrough", "--remove-passthrough"}

\* the tokens that follow the first action flag of the line, and the entity
\* the flag names ("" without an action flag)
RECURSIVE AfterAction(_)
AfterAction(words) ==
    IF Len(words) = 0 THEN [entity |-> "", rest |-> <<>>]
    ELSE IF words[1] \in ActionWords
    THEN [entity |-> IF Contains(words[1], "chain") THEN "chain"
                     ELSE IF Contains(words[1], "rule") THEN "rule" ELSE "passthrough",
          rest |-> Tail(words)]
    ELSE AfterAction(Tail(words))

Texts(words) == Materialise([i \in 1..Len(words) |-> S(words[i])])

\* what a direct line is to yield: the entity and its entry, "" for an error
DirectYield(a) ==
    IF a.entity = "chain" /\ Len(a.rest) = 3
    THEN [entity |-> "chain",
          entry |-> M(<<<<"ipv", S(a.rest[1])>>, <<"table", S(a.rest[2])>>,
                        <<"chain", S(a.rest[3])>>>>)]
    ELSE IF a.entity = "rule" /\ Len(a.rest) >= 5
    THEN [entity |-> "rule",
          entry |-> M(<<<<"ipv", S(a.rest[1])>>, <<"table", S(a.rest[2])>>,
                        <<"chain", S(a.rest[3])>>, <<"priority", parseInt(a.rest[4])>>,
                        <<"args", S(Join(SubSeq(a.rest, 5, Len(a.rest)), " "))>>>>)]
    ELSE IF a.entity = "passthrough" /\ Len(a.rest) >= 2
    THEN [entity |-> "passthrough",
          entry |-> M(<<<<"ipv", S(a.rest[1])>>,
                        <<"args", S(Join(SubSeq(a.rest, 2, Len(a.rest)), " "))>>>>)]
    ELSE [entity |-> "", entry |-> Null]

YieldOf(raw) == DirectYield(AfterAction(tokenizeLine(Command(raw))))

\* the entries of one entity that the lines are to yield, in line order
RECURSIVE Yielded(_, _)
Yielded(lines, entity) ==
    IF Len(lines) = 0 THEN <<>>
    ELSE (IF YieldOf(lines[1]).entity = entity THEN <<YieldOf(lines[1]).entry>> ELSE <<>>)
         \o Yielded(Tail(lines), entity)

Mentioning(msgs, i) == {k \in 1..Len(msgs) : StartsWith(msgs[k], Where(i))}

\* the line i has one error and no skipped record, or neither, as it is to
\* yield an entry or not
DirectLineReported(result, lines, i) ==
    /\ Mentioning(result.value.skipped, i) = {}
    /\ Cardinality(Mentioning(result.value.errors, i))
          = IF YieldOf(lines[i]).entity = "" THEN 1 ELSE 0

DirectLinesRead(result, lines) ==
    /\ ~result.threw
    /\ Elems(Get(result.value.config, "direct"), "chains")
          = Firsts(Yielded(lines, "chain"), "chain", {})
    /\ Elems(Get(result.value.config, "direct"), "rules") = Yielded(lines, "rule")
    /\ Elems(Get(result.value.config, "direct"), "passthroughs")
          = Yielded(lines, "passthrough")
    /\ \A i \in 1..Len(lines) : DirectLineReported(result, lines, i)

\* C23: a --direct line yields one chain from a chain action with 3 tokens,
\* one rule from a rule action with at least 5 (priority the 4th as an
\* integer, args the rest joined by single spaces, tokens with -- included),
\* one passthrough from a passthrough action with at least 2, and otherwise
\* exactly one error and nothing in the fragment
C23_DirectLines ==
    (pc = "scriptParsed" /\ script \in DirectScripts)
        => DirectLinesRead(fragment, Split(script, "\n"))

-----------------------------------------------------------------------------
(* Variables that refer to variables *)

\* the chained variables after one hop, each reference replaced by the
\* value its variable is declared with
OneHop ==
    {<<"a", S("{{c}}/24")>>, <<"b", S("10.0.0.1")>>, <<"c", S("10.0.0.1")>>,
     <<"hosts", L(<<S("{{c}}"), S("{{ item }}:5"), N(5), S("{{ hosts }} {{ nope }}")>>)>>,
     <<"n", N(5)>>, <<"port", S("55")>>}

\* the variables of the opposite order of declaration, resolved
Mirrored(variables) == resolveVariables(M(Reversed(variables.v)))

\* C24: one hop with the values as declared: a reference to a scalar
\* variable is replaced by that value, {{ item }} and references to lists
\* stay, whatever the order of declaration; of a -> b -> c the token of c
\* stays in a and in the generated commands
C24_OneHop ==
    /\ (HasReturned /\ doc \in ChainedDocs) =>
          /\ ElementsOf(parsed.value.variables.v) = OneHop
          /\ Keys(parsed.value.variables) = Keys(Get(doc, "variables"))
          /\ Elems(ZoneOf(parsed.value.config, "public"), "sources") = <<S("{{c}}/24")>>
    /\ (HasReturned /\ IsMap(Get(doc, "variables")) /\ IsMap(parsed.value.config)) =>
          ElementsOf(parsed.value.variables.v) = ElementsOf(Mirrored(Get(doc, "variables")).v)
    /\ (pc = "docShown" /\ doc \in ChainedDocs) =>
          /\ ~tabs.threw
          /\ Contains(tabs.value.apply, "--zone=public --add-source={{c}}/24\n")
          /\ Contains(tabs.value.apply, "--zone=public --add-port=55/tcp\n")

C24_Witness ==
    /\ pc = "docShown"
    /\ doc \in ChainedDocs
    /\ Keys(Get(doc, "variables"))[1] = "port"
    /\ ~parsed.threw
    /\ Get(parsed.value.variables, "a") = S("{{c}}/24")
    /\ Contains(tabs.value.apply, "{{c}}")

-----------------------------------------------------------------------------
(* Chains, one per triple *)

\* the permanent chain lines of a script, from the word chain on
ChainLines(lines) ==
    LET isChain(l) == /\ IsCommand(l) /\ l # Reload /\ Decompose(l).direct
                      /\ Decompose(l).permanent /\ Decompose(l).flag = "chain"
        chosen == SelectSeq(lines, isChain)
    IN [i \in 1..Len(chosen) |-> Decompose(chosen[i]).what]

\* one chain line for the first chain of each triple
OnePerTriple(chains) ==
    LET firsts == Firsts(chains, "chain", {})
    IN [i \in 1..Len(firsts) |->
           "chain " \o firsts[i].v[1][2].v \o " " \o firsts[i].v[2][2].v
                    \o " " \o firsts[i].v[3][2].v]

DirectChains(cfg) == Elems(Get(cfg, "direct"), "chains")

ChainsGenerated ==
    (pc = "removed" /\ ~applyOut.threw /\ ~removeOut.threw) =>
        /\ ChainLines(applyOut.value) = OnePerTriple(DirectChains(config))
        /\ ChainLines(removeOut.value) = OnePerTriple(DirectChains(config))

ChainsParsed ==
    (pc = "scriptParsed" /\ script \in DirectScripts /\ ~fragment.threw) =>
        DirectChains(fragment.value.config)
            = Firsts(Yielded(Split(script, "\n"), "chain"), "chain", {})

ChainsMerged ==
    pc = "merged" =>
        DirectChains(merged.value.config)
            = Firsts(DirectChains(existing) \o DirectChains(incoming), "chain", {})

\* C25: the generated scripts, the imported fragment and the merged
\* configuration each hold one chain per triple (ipv, table, chain), the first
\* of each, in the order first seen; chains of different triples all stay
C25_ChainsByTriple == ChainsGenerated /\ ChainsParsed /\ ChainsMerged

-----------------------------------------------------------------------------
(* Suggestions for unknown keys *)

\* a can be turned into b by at most d insertions, deletions and
\* replacements of one character
RECURSIVE Near(_, _, _)
Near(a, b, d) ==
    IF a = b THEN TRUE
    ELSE IF d = 0 THEN FALSE
    ELSE IF Len(a) = 0 THEN Len(b) <= d
    ELSE IF Len(b) = 0 THEN Len(a) <= d
    ELSE IF Char(a, 1) = Char(b, 1) THEN Near(From(a, 2), From(b, 2), d)
    ELSE \/ Near(From(a, 2), From(b, 2), d - 1)
         \/ Near(From(a, 2), b, d - 1)
         \/ Near(a, From(b, 2), d - 1)

\* the positions of the keys within d of k, letter case aside
Within(k, keys, d) ==
    {i \in 1..Len(keys) : Near(ToLowerCase(k), ToLowerCase(keys[i]), d)}

\* the first of the nearest keys, when one is within 2; "" when none is
Nearest(k, keys) ==
    IF Within(k, keys, 0) # {} THEN keys[Least(Within(k, keys, 0))]
    ELSE IF Within(k, keys, 1) # {} THEN keys[Least(Within(k, keys, 1))]
    ELSE IF Within(k, keys, 2) # {} THEN keys[Least(Within(k, keys, 2))]
    ELSE ""

\* the end of the warning for the unknown key k
UnknownKeyText(k, keys) ==
    "unknown key '" \o k \o "'"
    \o (IF Nearest(k, keys) = "" THEN ""
        ELSE " - did you mean '" \o Nearest(k, keys) \o "'?")

\* the unknown key of a port of the document d
MisspeltKey(d) == Elems(ZoneOf(d, "public"), "ports")[1].v[2][1]

AboutUnknownKey(warnings) ==
    {i \in 1..Len(warnings) : Contains(warnings[i], "unknown key")}

\* C26: the warning for an unknown key suggests the first of the nearest
\* valid keys when that is within Levenshtein distance 2, letter case aside,
\* and is the bare warning otherwise; the document has no error
C26_Suggestion ==
    (HasParsed /\ doc \in MisspeltDocs) =>
        /\ ~parsed.threw
        /\ parsed.value.errors = <<>>
        /\ IsMap(parsed.value.config)
        /\ Cardinality(AboutUnknownKey(parsed.value.warnings)) = 1
        /\ \A i \in AboutUnknownKey(parsed.value.warnings) :
               EndsWith(parsed.value.warnings[i],
                        ": " \o UnknownKeyText(MisspeltKey(doc), VALID_PORT_KEYS))

\* a tie at distance 2 between port and loop
C26_Witness ==
    /\ pc = "docParsed"
    /\ doc \in MisspeltDocs
    /\ MisspeltKey(doc) = "poo"
    /\ ~parsed.threw
    /\ \E i \in AboutUnknownKey(parsed.value.warnings) :
           EndsWith(parsed.value.warnings[i], "unknown key 'poo' - did you mean 'port'?")

-----------------------------------------------------------------------------
(* Rich rules that are equal field by field *)

\* a value by its fields, whatever their order
RECURSIVE Structure(_)
Structure(x) ==
    IF IsMap(x) THEN [t |-> "fields", v |-> {<<k, Structure(Get(x, k))>> : k \in KeySet(x)}]
    ELSE IF IsList(x) THEN [t |-> "items", v |-> [i \in 1..Len(x.v) |-> Structure(x.v[i])]]
    ELSE x

\* the first rule of each structure
RECURSIVE FirstOfStructure(_, _)
FirstOfStructure(xs, seen) ==
    IF Len(xs) = 0 THEN <<>>
    ELSE IF Structure(xs[1]) \in seen THEN FirstOfStructure(Tail(xs), seen)
    ELSE <<xs[1]>> \o FirstOfStructure(Tail(xs), seen \cup {Structure(xs[1])})

RichRulesMerged(out, old, new) ==
    Elems(out, "rich_rules")
        = FirstOfStructure(Elems(old, "rich_rules") \o Elems(new, "rich_rules"), {})

\* C27: the rich rules of a zone of both sides are those of existing
\* followed by those of incoming, of rules with the same fields and values
\* (nested objects included, in whatever order the fields are) the first only
C27_RichRulesByStructure ==
    pc = "merged" =>
        \A z \in ZonesIn(existing) \cap ZonesIn(incoming) :
            RichRulesMerged(ZoneOf(merged.value.config, z), ZoneOf(existing, z),
                            ZoneOf(incoming, z))

-----------------------------------------------------------------------------
(* Lines with an error *)

\* the lines from the i-th on that no message of msgs is about
RECURSIVE Unreported(_, _, _)
Unreported(lines, msgs, i) ==
    IF i > Len(lines) THEN <<>>
    ELSE (IF Mentioning(msgs, i) = {} THEN <<lines[i]>> ELSE <<>>)
         \o Unreported(lines, msgs, i + 1)

\* the fragment of the text without its lines with an error
WithoutErrors(text, result) ==
    parseCommands(Join(Unreported(Split(text, "\n"), result.value.errors, 1), "\n"))

Populated(zones) == \A i \in 1..Len(zones.v) : Len(zones.v[i][2].v) > 0

\* C28: the fragment is the one of the text without its lines with an
\* error; a line with an error creates no zone, and every zone of the
\* fragment has a field
C28_ErrorLinesLeaveNothing ==
    (pc = "scriptParsed" /\ ~fragment.threw) =>
        /\ fragment.value.config = WithoutErrors(script, fragment).value.config
        /\ Has(fragment.value.config, "zones")
              => Populated(Get(fragment.value.config, "zones"))

-----------------------------------------------------------------------------
(* No key twice after a merge *)

\* no two elements of the lists of x have the same key
OncePerKey(x, kinds) ==
    \A i \in 1..Len(kinds) :
        \A j, k \in 1..Len(Elems(x, kinds[i][1])) :
            ClaimedKey(kinds[i][2], Elems(x, kinds[i][1])[j])
                = ClaimedKey(kinds[i][2], Elems(x, kinds[i][1])[k]) => j = k

\* C29: after the merge no list of a zone of incoming, and none of the
\* chains, rules and passthroughs of the result, holds two elements of one
\* key, also when only incoming has the zone or the direct section
C29_NoKeyTwice ==
    pc = "merged" =>
        /\ \A z \in ZonesIn(incoming) : OncePerKey(ZoneOf(merged.value.config, z), ListKinds)
        /\ OncePerKey(Get(merged.value.config, "direct"), DirectKinds)

-----------------------------------------------------------------------------
(* Zone commands with several flags *)

FlagName(token) ==
    IF IndexOf(token, "=") = 0 THEN From(token, 3) ELSE SubSeq(token, 3, IndexOf(token, "=") - 1)
FlagValue(token) ==
    IF IndexOf(token, "=") = 0 THEN B(TRUE) ELSE S(From(token, IndexOf(token, "=") + 1))

\* the name without its add- or remove-
BaseName(name) ==
    IF StartsWith(name, "add-") THEN From(name, 5)
    ELSE IF StartsWith(name, "remove-") THEN From(name, 8) ELSE name

NoChange == [field |-> "", push |-> FALSE, value |-> Null]
Appends(field, value) == [field |-> field, push |-> TRUE, value |-> value]
Sets(field, value) == [field |-> field, push |-> FALSE, value |-> value]

TextFields ==
    ("interface" :> "interfaces") @@ ("source" :> "sources") @@ ("service" :> "services")
    @@ ("protocol" :> "protocols")
PortFields == ("port" :> "ports") @@ ("source-port" :> "source_ports")

\* the one change a flag stands for, none for a flag that is not recognized
ChangeOf(name, value) ==
    IF name = "set-target" THEN Sets("target", value)
    ELSE IF BaseName(name) \in DOMAIN TextFields
    THEN Appends(TextFields[BaseName(name)], value)
    ELSE IF BaseName(name) \in DOMAIN PortFields
    THEN Appends(PortFields[BaseName(name)], parsePort(value))
    ELSE IF BaseName(name) = "rich-rule" THEN Appends("rich_rules", parseRichRule(value))
    ELSE IF BaseName(name) = "forward-port" THEN Appends("forward_ports", parseForwardPort(value))
    ELSE IF BaseName(name) = "icmp-block" /\ IsStr(value) THEN Appends("icmp_blocks", value)
    ELSE IF BaseName(name) \in {"forward", "masquerade"} /\ value = B(TRUE)
    THEN Sets(BaseName(name), B(TRUE))
    ELSE IF BaseName(name) = "icmp-block-inversion" THEN Sets("icmp_block_inversion", B(TRUE))
    ELSE NoChange

\* the change of the first recognized flag among the tokens, from the left
RECURSIVE FirstChange(_)
FirstChange(tokens) ==
    IF Len(tokens) = 0 THEN NoChange
    ELSE IF /\ StartsWith(tokens[1], "--")
            /\ FlagName(tokens[1]) \notin {"zone", "permanent", "direct"}
            /\ ChangeOf(FlagName(tokens[1]), FlagValue(tokens[1])) # NoChange
    THEN ChangeOf(FlagName(tokens[1]), FlagValue(tokens[1]))
    ELSE FirstChange(Tail(tokens))

ZonesOfConfig(cfg) == IF Has(cfg, "zones") THEN Get(cfg, "zones") ELSE M(<<>>)
ZoneBefore(zones, z) == IF Has(zones, z) THEN Get(zones, z) ELSE M(<<>>)

\* the zones with the change c made to the zone z
Changed(zones, z, c) ==
    Put(zones, z,
        IF c.push
        THEN Put(ZoneBefore(zones, z), c.field,
                 L(Elems(ZoneBefore(zones, z), c.field) \o <<c.value>>))
        ELSE Put(ZoneBefore(zones, z), c.field, c.value))

ZoneNamed(raw) ==
    IF Has(FlagsOf(raw), "zone") THEN ToStr(Get(FlagsOf(raw), "zone")) ELSE "public"

\* the line i is a zone command with neither an error nor a skipped record
AcceptedZoneLine(result, lines, i) ==
    /\ StartsWith(Command(lines[i]), "firewall-cmd")
    /\ ~Has(FlagsOf(lines[i]), "direct")
    /\ Mentioning(result.value.errors, i) = {}
    /\ Mentioning(result.value.skipped, i) = {}

\* the fragment of the first i lines
UpTo(lines, i) == parseCommands(Join(SubSeq(lines, 1, i), "\n"))

\* the first i lines give the zones of the first i - 1 lines with the change c
OneChange(before, after, raw, c) ==
    /\ c # NoChange
    /\ ZonesOfConfig(after.value.config)
          = Changed(ZonesOfConfig(before.value.config), ZoneNamed(raw), c)
    /\ Get(after.value.config, "direct") = Get(before.value.config, "direct")

\* C30: a zone command without error and skipped record makes the one
\* change of its first recognized flag, from the left: one element more in
\* one list of one zone, or one scalar of one zone set; the flags after it
\* change nothing
C30_OneChangePerLine ==
    (pc = "scriptParsed" /\ script \in FlagScripts /\ ~fragment.threw) =>
        \A i \in 1..Len(Split(script, "\n")) :
            AcceptedZoneLine(fragment, Split(script, "\n"), i) =>
                OneChange(UpTo(Split(script, "\n"), i - 1), UpTo(Split(script, "\n"), i),
                          Split(script, "\n")[i],
                          FirstChange(tokenizeLine(Command(Split(script, "\n")[i]))))

\* the value of the last of the tokens that carries the flag name
RECURSIVE LastValue(_, _)
LastValue(tokens, name) ==
    IF Len(tokens) = 0 THEN Null
    ELSE IF StartsWith(tokens[Len(tokens)], "--") /\ FlagName(tokens[Len(tokens)]) = name
    THEN FlagValue(tokens[Len(tokens)])
    ELSE LastValue(SubSeq(tokens, 1, Len(tokens) - 1), name)

\* the change of the first flag name, from the left, that is recognized with
\* the value the line gives it last
RECURSIVE FirstNameChange(_, _)
FirstNameChange(rest, tokens) ==
    IF Len(rest) = 0 THEN NoChange
    ELSE IF /\ StartsWith(rest[1], "--")
            /\ FlagName(rest[1]) \notin {"zone", "permanent", "direct"}
            /\ ChangeOf(FlagName(rest[1]), LastValue(tokens, FlagName(rest[1]))) # NoChange
    THEN ChangeOf(FlagName(rest[1]), LastValue(tokens, FlagName(rest[1])))
    ELSE FirstNameChange(Tail(rest), tokens)

\* C30 for flags that may be repeated: a zone command without error and
\* skipped record makes one change, that of the first flag name, from the
\* left, that is recognized with the value of the last flag of that name
C30_OneChangePerFlagName ==
    (pc = "scriptParsed" /\ script \in FlagScripts /\ ~fragment.threw) =>
        \A i \in 1..Len(Split(script, "\n")) :
            AcceptedZoneLine(fragment, Split(script, "\n"), i) =>
                OneChange(UpTo(Split(script, "\n"), i - 1), UpTo(Split(script, "\n"), i),
                          Split(script, "\n")[i],
                          FirstNameChange(tokenizeLine(Command(Split(script, "\n")[i])),
                                          tokenizeLine(Command(Split(script, "\n")[i]))))

C30_Witness ==
    /\ pc = "scriptParsed"
    /\ script = "firewall-cmd --add-port=443/tcp --set-target=DROP\nfirewall-cmd --add-service=http --add-port=80/tcp --add-service=dns"
    /\ ~fragment.threw
    /\ fragment.value.errors = <<>>
    /\ fragment.value.skipped = <<>>
    /\ KeySet(ZoneOf(fragment.value.config, "public")) = {"ports", "services"}
    /\ Elems(ZoneOf(fragment.value.config, "public"), "services") = <<S("dns")>>
    /\ Len(Elems(ZoneOf(fragment.value.config, "public"), "ports")) = 1

=============================================================================
